---- MODULE Spec2Model ----
(***************************************************************************)
(* A model of LogsSSEGateway (src/logs-sse-gateway/server/logs-gateway.js) *)
(*                                                                         *)
(* Every route handler of the gateway runs to completion on Node's single  *)
(* thread (none of them awaits), so one handler invocation is one action.  *)
(*                                                                         *)
(* JavaScript strings are modelled as sequences of symbols: a symbol is    *)
(* either a delimiter (":" or ",") or an opaque chunk of other characters. *)
(* String.split, template literals and byte-exact comparison are computed  *)
(* on that representation.                                                 *)
(*                                                                         *)
(* Date.now() together with the Math.random() suffix is modelled as a      *)
(* nonce source: the n-th draw yields n.  Timestamps carried inside the    *)
(* records are not modelled.                                               *)
(***************************************************************************)
EXTENDS Integers, Sequences, FiniteSets, TLC

VARIABLES
    connections,   \* this.connections : connectionId -> connection info
    logChannels,   \* this.logChannels : channel -> Set<connectionId> (insertion order)
    stats,         \* this.stats       : totalConnections, logsPublished
    streams,       \* what res.write has put on each accepted response, in order
    timers,        \* connection ids whose heartbeat setInterval is still armed
    sockets,       \* connection ids whose request has not yet emitted 'close'
    response,      \* the status and body of the last HTTP response sent
    minted,        \* number of log message ids drawn so far
    broadcasts,    \* number of broadcastLog calls so far (history)
    drained,       \* how many records of each response the client's socket has
                   \* taken; the rest waits in the response's write buffer
    scenario,      \* SpecSubscribe, SpecPublish: the request under examination
    clock          \* SpecTimed: the time, when each heartbeat interval was
                   \* armed and when each response was last written to

\* The browser clients: LogStreamer (src/frontend/src/components/LogStreamer.jsx)
\* and SSEProvider with its hook useSSESubscription
\* (src/sse-gateway/examples/logs-integration-example.js, src/unnamed/part_007).
\* The two components keep their connection in refs and state of the same
\* names; a specification runs one of them.
VARIABLES
    eventSource,          \* eventSourceRef.current and the readyState of that EventSource
    created,              \* number of EventSources constructed so far (history)
    reconnectTimeouts,    \* the setTimeout timers of onerror that are still pending
    reconnectTimeoutRef,  \* reconnectTimeoutRef.current: id of the last timer set, 0 for null
    reconnectAttempts,    \* reconnectAttempts.current
    connectionStatus,     \* the connectionStatus state
    isConnected,          \* LogStreamer: the isConnected state
    errors,               \* error events so far (history)
    consecutiveErrors,    \* error events since the last open or disconnect (history)
    logs,                 \* LogStreamer: the logs state
    groupedLogs,          \* LogStreamer: the groupedLogs state, execID -> logs
    subscribersRef,       \* SSEProvider: subscribersRef.current, channel -> Set<callback>
    connectedChannels,    \* SSEProvider: the connectedChannels state
    invoked,              \* SSEProvider: the message the last step handled and the
                          \* callback calls it made (history)
    unsubscribes,         \* SSEProvider: the unsubscribe closures not yet called
    data,                 \* useSSESubscription: the data state
    options,              \* useSSESubscription: the options the hook was called with
    messageCount,         \* useSSESubscription: the messageCount state
    received              \* LogStreamer: logs delivered so far (history)

clientVars == <<eventSource, created, reconnectTimeouts, reconnectTimeoutRef,
                reconnectAttempts, connectionStatus, isConnected, errors,
                consecutiveErrors, logs,
                groupedLogs, subscribersRef, connectedChannels, invoked, unsubscribes, data,
                options, messageCount, received>>

\* SSEGateway (src/sse-gateway/server/gateway.js), whose connections are keyed
\* by user id
VARIABLES
    sseConnections,  \* this.connections : userId -> { res, channels, messagesSent }
    sseChannels,     \* this.channels    : channel -> Set<userId>
    sseStats,        \* this.stats       : totalConnections, messagesPublished
    sseStreams,      \* what res.write has put on each accepted response, in order
    sseSockets,      \* the requests that have not yet emitted 'close'
    sseTimers,       \* the requests whose heartbeat setInterval is still armed
    sseResponse      \* the status and body of the last HTTP response sent

sseVars == <<sseConnections, sseChannels, sseStats, sseStreams, sseSockets, sseTimers,
             sseResponse>>

\* the state of the programs a specification of the logs gateway leaves alone
others == <<clientVars, sseVars>>

\* the state of the logs gateway
gatewayVars == <<connections, logChannels, stats, streams, timers, sockets, response,
                 minted, broadcasts, drained, scenario, clock>>

vars == <<gatewayVars, clientVars, sseVars>>

-----------------------------------------------------------------------------
(* Bounds of the model *)

\* events (accepted subscribes, broadcasts, heartbeat writes) in a behaviour of Spec
MaxEvents == 3
\* the same budget in SpecSubscribe and in SpecPublish, which examine one
\* request drawn from a wider range
MaxSubscribeEvents == 2
MaxPublishEvents == 3
\* the same budget in SpecBackpressure, whose clients read at their own pace
MaxSlowEvents == 4
\* the same budget in SpecLive, where requests wait for their handler
MaxLiveEvents == 3

-----------------------------------------------------------------------------
(* JavaScript values *)

Str(chunk) == <<chunk>>
Undefined == <<"#undefined">>
EmptyString == <<>>
Colon == <<":">>
Comma == <<",">>

\* Boolean(v) for the values the handlers test: undefined and "" are falsy
Truthy(v) == v /= Undefined /\ v /= EmptyString

\* `${v}` in a template literal
TemplateString(v) == IF v = Undefined THEN Str("undefined") ELSE v

Range(s) == {s[i] : i \in 1..Len(s)}

\* s.split(d): the substrings of s between the occurrences of the delimiter d
RECURSIVE Split(_, _)
Split(s, d) ==
    IF \A i \in 1..Len(s) : s[i] /= d
    THEN <<s>>
    ELSE LET i == CHOOSE k \in 1..Len(s) :
                      s[k] = d /\ \A j \in 1..(k - 1) : s[j] /= d
         IN  <<SubSeq(s, 1, i - 1)>> \o Split(SubSeq(s, i + 1, Len(s)), d)

\* Set.add / Set.delete on an insertion-ordered Set
SetAdd(set, x) == IF x \in Range(set) THEN set ELSE Append(set, x)
SetDelete(set, x) == SelectSeq(set, LAMBDA y : y /= x)

\* Map.delete
MapDelete(map, k) == [x \in DOMAIN map \ {k} |-> map[x]]
\* Map.set
MapSet(map, k, v) == [x \in DOMAIN map \cup {k} |-> IF x = k THEN v ELSE map[x]]

\* mutant: the record overtakes what was written before
Write_Overtaking(stream, record) == <<record>> \o stream

\* res.write(record): the record is appended to what the response carries
Write(stream, record) == Append(stream, record)

-----------------------------------------------------------------------------
(* The mock authentication middleware *)

DefaultUserId == Str("user123")
MockWorkspaceIds == <<Str("workspace123"), Str("workspace456")>>

MockUser(header) ==
    [id |-> IF Truthy(header) THEN header ELSE DefaultUserId,
     workspace_ids |-> MockWorkspaceIds]

-----------------------------------------------------------------------------
(* getUserLogChannels, validateLogPublisher, removeConnection *)

\* const [type, service, workspaceId, resourceId] = channel.split(':')
Component(channel, n) ==
    LET parts == Split(channel, ":")
    IN  IF n <= Len(parts) THEN parts[n] ELSE Undefined

\* mutant: every requested channel is granted
getUserLogChannels_AllowsAll(user, requestedChannels) == requestedChannels

\* mutant: the workspace is looked for one component too early
getUserLogChannels_WrongComponent(user, requestedChannels) ==
    SelectSeq(requestedChannels,
              LAMBDA channel :
                  /\ Component(channel, 1) = Str("logs")
                  /\ Component(channel, 2) \in Range(user.workspace_ids))

getUserLogChannels(user, requestedChannels) ==
    SelectSeq(requestedChannels,
              LAMBDA channel :
                  /\ Component(channel, 1) = Str("logs")
                  /\ Component(channel, 3) \in Range(user.workspace_ids))

\* validTokens[token] ; the 'service-token' entry maps to the declared service
ValidTokens(token, service) ==
    IF token = Str("l5-etl-token") THEN Str("etl")
    ELSE IF token = Str("faas-token") THEN Str("faas")
    ELSE IF token = Str("function-token") THEN Str("function")
    ELSE IF token = Str("service-token") THEN service
    ELSE Undefined

validateLogPublisher(token, service) == ValidTokens(token, service) = service

\* The registry: the two maps removeConnection and broadcastLog work on
Registry == [connections |-> connections, logChannels |-> logChannels]

RECURSIVE RemoveFromChannels(_, _, _)
RemoveFromChannels(lc, channels, connectionId) ==
    IF channels = <<>> THEN lc
    ELSE LET channel == Head(channels)
             after ==
                 IF channel \in DOMAIN lc
                 THEN LET channelSubscribers == SetDelete(lc[channel], connectionId)
                      IN  IF Len(channelSubscribers) = 0
                          THEN MapDelete(lc, channel)
                          ELSE MapSet(lc, channel, channelSubscribers)
                 ELSE lc
         IN  RemoveFromChannels(after, Tail(channels), connectionId)

\* mutant: the primary index is treated as keyed by user (userId -> connection
\* info): every connection of the id's user is removed
removeConnection_ByUser(reg, connectionId) ==
    LET mine == {c \in DOMAIN reg.connections : c[1] = connectionId[1]}
    IN  [connections |-> [c \in DOMAIN reg.connections \ mine |-> reg.connections[c]],
         logChannels |->
             LET swept == [channel \in DOMAIN reg.logChannels |->
                              SelectSeq(reg.logChannels[channel],
                                        LAMBDA c : c \notin mine)]
             IN  [channel \in {ch \in DOMAIN swept : swept[ch] /= <<>>} |->
                     swept[channel]]]

\* mutant: the connection is dropped from the primary index only
removeConnection_KeepsIndex(reg, connectionId) ==
    IF connectionId \in DOMAIN reg.connections
    THEN [connections |-> MapDelete(reg.connections, connectionId),
          logChannels |-> reg.logChannels]
    ELSE reg

\* mutant: the connection is taken out of every subscriber set, and a set it
\* leaves empty keeps its key
removeConnection_KeepsEmptied(reg, connectionId) ==
    IF connectionId \in DOMAIN reg.connections
    THEN [connections |-> MapDelete(reg.connections, connectionId),
          logChannels |-> [channel \in DOMAIN reg.logChannels |->
                              SetDelete(reg.logChannels[channel], connectionId)]]
    ELSE reg

removeConnection(reg, connectionId) ==
    IF connectionId \in DOMAIN reg.connections
    THEN [connections |-> MapDelete(reg.connections, connectionId),
          logChannels |-> RemoveFromChannels(reg.logChannels,
                              reg.connections[connectionId].channels,
                              connectionId)]
    ELSE reg

-----------------------------------------------------------------------------
(* Channel names built by the publish side *)

Channel3(service, workspace_id) ==
    Str("logs") \o Colon \o TemplateString(service) \o Colon \o TemplateString(workspace_id)

Channel4(service, workspace_id, resource_id) ==
    Channel3(service, workspace_id) \o Colon \o TemplateString(resource_id)

-----------------------------------------------------------------------------
(* handleLogsSSE: GET /api/logs/stream *)

\* mutant: the id carries nothing that tells two connections of a user apart
NewConnectionId_Reused(userId) == <<userId, 1>>

\* `${userId}_${Date.now()}_${Math.random().toString(36).substr(2, 9)}`
NewConnectionId(userId) == <<userId, Len(streams) + 1>>

\* mutant: a channel's subscriber set is started anew for each connection
\* that subscribes to it
RECURSIVE SubscribeChannels_Replaces(_, _, _)
SubscribeChannels_Replaces(lc, channels, connectionId) ==
    IF channels = <<>> THEN lc
    ELSE SubscribeChannels_Replaces(MapSet(lc, Head(channels), <<connectionId>>),
                                    Tail(channels), connectionId)

RECURSIVE SubscribeChannels(_, _, _)
SubscribeChannels(lc, channels, connectionId) ==
    IF channels = <<>> THEN lc
    ELSE LET channel == Head(channels)
             set == IF channel \in DOMAIN lc THEN lc[channel] ELSE <<>>
         IN  SubscribeChannels(MapSet(lc, channel, SetAdd(set, connectionId)),
                               Tail(channels), connectionId)

\* mutant: the handshake announces no channels
Handshake_NoChannels(allowedChannels, userId, connectionId) ==
    [shape |-> "handshake", type |-> "connection", status |-> "connected",
     channels |-> <<>>, userId |-> userId, connectionId |-> connectionId]

Handshake(allowedChannels, userId, connectionId) ==
    [shape |-> "handshake", type |-> "connection", status |-> "connected",
     channels |-> allowedChannels, userId |-> userId, connectionId |-> connectionId]

\* req.userId: the X-User-Id header; req.channels: the channels query parameter,
\* an array of strings when the parameter is repeated (req.repeated)
\* the handler from line 135 on, for a request whose channels are a string
\* and for the connection id drawn at line 134
accept(req, connectionId) ==
    LET user == MockUser(req.userId)
        userId == user.id
        res == Len(streams) + 1
        requestedChannels ==
            IF Truthy(req.channels) THEN Split(req.channels, ",") ELSE <<>>
        allowedChannels == getUserLogChannels(user, requestedChannels)
        connectionData ==
            [res |-> res, userId |-> userId, connectionId |-> connectionId,
             channels |-> allowedChannels, logsSent |-> 0]
    IN  /\ connections' = MapSet(connections, connectionId, connectionData)
        /\ stats' = [stats EXCEPT !.totalConnections = @ + 1]
        /\ logChannels' = SubscribeChannels(logChannels, allowedChannels, connectionId)
        /\ streams' = Append(streams,
               Write(<<>>, Handshake(allowedChannels, userId, connectionId)))
        /\ sockets' = sockets \cup {[connectionId |-> connectionId, res |-> res]}
        /\ timers' = timers \cup {[connectionId |-> connectionId, res |-> res]}
        /\ response' = [status |-> 200]
        /\ UNCHANGED <<minted, broadcasts>>

handleLogsSSE(req) ==
    IF req.repeated
    THEN \* req.query.channels.split is not a function: the handler throws
         \* before anything is stored and Express answers 500
         /\ response' = [status |-> 500]
         /\ UNCHANGED <<connections, logChannels, stats, streams, timers, sockets,
                        minted, broadcasts>>
    ELSE accept(req, NewConnectionId(MockUser(req.userId).id))

\* mutant: the close handler forgets to unregister the connection
onClose_Forgets(socket) ==
    /\ sockets' = sockets \ {socket}
    /\ UNCHANGED <<connections, logChannels, stats, streams, timers, response,
                   minted, broadcasts>>

\* req.on('close', ...)
onClose(socket) ==
    LET reg == removeConnection(Registry, socket.connectionId)
    IN  /\ connections' = reg.connections
        /\ logChannels' = reg.logChannels
        /\ sockets' = sockets \ {socket}
        /\ UNCHANGED <<stats, streams, timers, response, minted, broadcasts>>

Ping == [shape |-> "ping"]

\* mutant: the heartbeat does not look whether the connection is still there
heartbeat_Unguarded(timer) ==
    /\ streams' = [streams EXCEPT ![timer.res] = Write(@, Ping)]
    /\ UNCHANGED <<connections, logChannels, stats, timers, sockets, response,
                   minted, broadcasts>>

\* mutant: the heartbeat counts as a message sent
heartbeat_CountsPing(timer) ==
    IF timer.connectionId \in DOMAIN connections
    THEN /\ streams' = [streams EXCEPT ![timer.res] = Write(@, Ping)]
         /\ connections' = [connections EXCEPT ![timer.connectionId].logsSent = @ + 1]
         /\ UNCHANGED <<logChannels, stats, timers, sockets, response,
                        minted, broadcasts>>
    ELSE /\ timers' = timers \ {timer}
         /\ UNCHANGED <<connections, logChannels, stats, streams, sockets, response,
                        minted, broadcasts>>

\* the setInterval callback
heartbeat(timer) ==
    IF timer.connectionId \in DOMAIN connections
    THEN /\ streams' = [streams EXCEPT ![timer.res] = Write(@, Ping)]
         /\ UNCHANGED <<connections, logChannels, stats, timers, sockets, response,
                        minted, broadcasts>>
    ELSE /\ timers' = timers \ {timer}
         /\ UNCHANGED <<connections, logChannels, stats, streams, sockets, response,
                        minted, broadcasts>>

-----------------------------------------------------------------------------
(* broadcastLog *)

\* `log-${Date.now()}-${Math.random().toString(36).substr(2, 9)}`
NewLogId(n) == n + 1

\* The record written for one subscriber.  pub is history: the ordinal of the
\* broadcastLog call that wrote it; it is not on the wire.
LogRecord(channel, logData, id, pub) ==
    [shape |-> "data", id |-> id, channel |-> channel, data |-> logData, pub |-> pub]

\* mutant: a write that throws is not caught and ends the pass
RECURSIVE ForEachSubscriber_AbortsOnError(_, _, _, _, _, _)
ForEachSubscriber_AbortsOnError(st, visited, channel, logData, failing, pub) ==
    LET subscribers ==
            IF channel \in DOMAIN st.logChannels THEN st.logChannels[channel] ELSE <<>>
        rest == SelectSeq(subscribers, LAMBDA c : c \notin visited)
    IN  IF rest = <<>> THEN st
        ELSE
        LET connectionId == Head(rest)
            seen == visited \cup {connectionId}
        IN  IF connectionId \notin DOMAIN st.connections
            THEN ForEachSubscriber_AbortsOnError(st, seen, channel, logData, failing, pub)
            ELSE
            LET connection == st.connections[connectionId]
                id == NewLogId(st.minted)
                logMessage == LogRecord(channel, logData, id, pub)
                written ==
                    [st EXCEPT
                       !.streams[connection.res] = Write(@, logMessage),
                       !.connections[connectionId].logsSent = @ + 1,
                       !.delivered = @ + 1,
                       !.minted = id]
            IN  IF connection.res \in failing
                THEN [st EXCEPT !.minted = id]
                ELSE ForEachSubscriber_AbortsOnError(written, seen, channel, logData,
                                                     failing, pub)

\* mutant: the pass walks the live set by position, so the member that
\* follows an unregistered one moves into its place and is passed over
RECURSIVE ForEachSubscriber_ByPosition(_, _, _, _, _, _)
ForEachSubscriber_ByPosition(st, visited, channel, logData, failing, pub) ==
    LET subscribers ==
            IF channel \in DOMAIN st.logChannels THEN st.logChannels[channel] ELSE <<>>
        rest == SelectSeq(subscribers, LAMBDA c : c \notin visited)
    IN  IF rest = <<>> THEN st
        ELSE
        LET connectionId == Head(rest)
            seen == visited \cup {connectionId}
            connection == st.connections[connectionId]
            id == NewLogId(st.minted)
            logMessage == LogRecord(channel, logData, id, pub)
            written ==
                [st EXCEPT
                   !.streams[connection.res] = Write(@, logMessage),
                   !.connections[connectionId].logsSent = @ + 1,
                   !.delivered = @ + 1,
                   !.minted = id]
            reg == removeConnection(
                       [connections |-> st.connections,
                        logChannels |-> st.logChannels], connectionId)
            caught ==
                [st EXCEPT
                   !.connections = reg.connections,
                   !.logChannels = reg.logChannels,
                   !.minted = id]
        IN  IF connection.res \in failing
            THEN ForEachSubscriber_ByPosition(
                     caught, seen \cup {rest[i] : i \in {2} \cap DOMAIN rest},
                     channel, logData, failing, pub)
            ELSE ForEachSubscriber_ByPosition(written, seen, channel, logData,
                                              failing, pub)

\* One pass of subscribers.forEach.  st carries the registry, the streams, the
\* id source and the delivered count; visited holds the members already passed.
\* failing is the set of responses whose write throws.
RECURSIVE ForEachSubscriber(_, _, _, _, _, _)
ForEachSubscriber(st, visited, channel, logData, failing, pub) ==
    LET subscribers ==
            IF channel \in DOMAIN st.logChannels THEN st.logChannels[channel] ELSE <<>>
        rest == SelectSeq(subscribers, LAMBDA c : c \notin visited)
    IN  IF rest = <<>> THEN st
        ELSE
        LET connectionId == Head(rest)
            seen == visited \cup {connectionId}
        IN  IF connectionId \notin DOMAIN st.connections
            THEN ForEachSubscriber(st, seen, channel, logData, failing, pub)
            ELSE
            LET connection == st.connections[connectionId]
                id == NewLogId(st.minted)
                logMessage == LogRecord(channel, logData, id, pub)
                written ==
                    [st EXCEPT
                       !.streams[connection.res] = Write(@, logMessage),
                       !.connections[connectionId].logsSent = @ + 1,
                       !.delivered = @ + 1,
                       !.minted = id]
                reg == removeConnection(
                           [connections |-> st.connections,
                            logChannels |-> st.logChannels], connectionId)
                caught ==
                    [st EXCEPT
                       !.connections = reg.connections,
                       !.logChannels = reg.logChannels,
                       !.minted = id]
            IN  \* the state after this subscriber is computed once, then the
                \* pass goes on from it
                CHOOSE result \in
                    {ForEachSubscriber(after, seen, channel, logData, failing, pub) :
                        after \in {IF connection.res \in failing THEN caught ELSE written}} :
                    TRUE

\* mutant: a write that throws is caught and the pass goes on, but the
\* connection stays registered and the write counts as delivered
broadcastLog_CountsAttempts(channel, logData, failing) ==
    LET st == ForEachSubscriber(
                  [connections |-> connections, logChannels |-> logChannels,
                   streams |-> streams, minted |-> minted, delivered |-> 0],
                  {}, channel, logData, {}, broadcasts + 1)
    IN  [st EXCEPT !.streams =
            [r \in DOMAIN streams |->
                IF r \in failing THEN streams[r] ELSE st.streams[r]]]

broadcastLog(channel, logData, failing) ==
    ForEachSubscriber(
        [connections |-> connections, logChannels |-> logChannels,
         streams |-> streams, minted |-> minted, delivered |-> 0],
        {}, channel, logData, failing, broadcasts + 1)

-----------------------------------------------------------------------------
(* handleLogsPublish: POST /api/logs/publish *)

\* mutant: workflow_id is looked at first
PublishChannel_WorkflowFirst(req) ==
    IF Truthy(req.workflow_id)
    THEN Channel4(req.service, req.workspace_id, req.workflow_id)
    ELSE IF Truthy(req.function_id)
    THEN Channel4(Str("function"), req.workspace_id, req.function_id)
    ELSE Channel3(req.service, req.workspace_id)

PublishChannel(req) ==
    IF Truthy(req.function_id)
    THEN Channel4(Str("function"), req.workspace_id, req.function_id)
    ELSE IF Truthy(req.workflow_id)
    THEN Channel4(req.service, req.workspace_id, req.workflow_id)
    ELSE Channel3(req.service, req.workspace_id)

\* mutant: the publish waits until every subscriber of its channel has taken
\* what was written to it before
handleLogsPublish_AwaitsDrain(req, failing) ==
    IF ~validateLogPublisher(req.token, req.service)
    THEN /\ response' = [status |-> 403, error |-> "Unauthorized log publisher"]
         /\ UNCHANGED <<connections, logChannels, stats, streams, timers, sockets,
                        minted, broadcasts>>
    ELSE LET channel == PublishChannel(req)
             st == broadcastLog(channel, req.logData, failing)
         IN  /\ \A c \in DOMAIN connections :
                    channel \in Range(connections[c].channels)
                    => drained[connections[c].res] = Len(streams[connections[c].res])
             /\ connections' = st.connections
             /\ logChannels' = st.logChannels
             /\ streams' = st.streams
             /\ minted' = st.minted
             /\ broadcasts' = broadcasts + 1
             /\ stats' = [stats EXCEPT !.logsPublished = @ + 1]
             /\ response' = [status |-> 200, success |-> TRUE, channel |-> channel,
                             delivered |-> st.delivered]
             /\ UNCHANGED <<timers, sockets>>

\* mutant: the publish is counted before the publisher is validated
handleLogsPublish_CountsFirst(req, failing) ==
    IF ~validateLogPublisher(req.token, req.service)
    THEN /\ response' = [status |-> 403, error |-> "Unauthorized log publisher"]
         /\ stats' = [stats EXCEPT !.logsPublished = @ + 1]
         /\ UNCHANGED <<connections, logChannels, streams, timers, sockets,
                        minted, broadcasts>>
    ELSE LET channel == PublishChannel(req)
             st == broadcastLog(channel, req.logData, failing)
         IN  /\ connections' = st.connections
             /\ logChannels' = st.logChannels
             /\ streams' = st.streams
             /\ minted' = st.minted
             /\ broadcasts' = broadcasts + 1
             /\ stats' = [stats EXCEPT !.logsPublished = @ + 1]
             /\ response' = [status |-> 200, success |-> TRUE, channel |-> channel,
                             delivered |-> st.delivered]
             /\ UNCHANGED <<timers, sockets>>

handleLogsPublish(req, failing) ==
    IF ~validateLogPublisher(req.token, req.service)
    THEN /\ response' = [status |-> 403, error |-> "Unauthorized log publisher"]
         /\ UNCHANGED <<connections, logChannels, stats, streams, timers, sockets,
                        minted, broadcasts>>
    ELSE LET channel == PublishChannel(req)
             st == broadcastLog(channel, req.logData, failing)
         IN  /\ connections' = st.connections
             /\ logChannels' = st.logChannels
             /\ streams' = st.streams
             /\ minted' = st.minted
             /\ broadcasts' = broadcasts + 1
             /\ stats' = [stats EXCEPT !.logsPublished = @ + 1]
             /\ response' = [status |-> 200, success |-> TRUE, channel |-> channel,
                             delivered |-> st.delivered]
             /\ UNCHANGED <<timers, sockets>>

-----------------------------------------------------------------------------
(* POST /test/logs *)

SampleLogData == Str("sample-log")

\* a destructuring default applies when the property is undefined
Default(v, d) == IF v = Undefined THEN d ELSE v

\* mutant: the test route leaves the workflow out of the channel
TestChannel_NoWorkflow(req) ==
    Channel3(Default(req.service, Str("etl")),
             Default(req.workspace_id, Str("workspace123")))

TestChannel(req) ==
    Channel4(Default(req.service, Str("etl")),
             Default(req.workspace_id, Str("workspace123")),
             Default(req.workflow_id, Str("workflow456")))

testLogs(req, failing) ==
    LET testLogData == IF Truthy(req.logData) THEN req.logData ELSE SampleLogData
        channel == TestChannel(req)
        st == broadcastLog(channel, testLogData, failing)
    IN  /\ connections' = st.connections
        /\ logChannels' = st.logChannels
        /\ streams' = st.streams
        /\ minted' = st.minted
        /\ broadcasts' = broadcasts + 1
        /\ response' = [status |-> 200, success |-> TRUE, channel |-> channel,
                        delivered |-> st.delivered, logData |-> testLogData]
        /\ UNCHANGED <<stats, timers, sockets>>

-----------------------------------------------------------------------------
(* Requests *)

ChanA == Channel4(Str("etl"), Str("workspace123"), Str("workflow456"))
ChanF == Channel4(Str("function"), Str("workspace123"), Str("fn1"))
ChanZ == Channel4(Str("etl"), Str("workspaceZ"), Str("workflow456"))

Queries ==
    {ChanA, ChanA \o Comma \o ChanF, ChanA \o Comma \o ChanA, ChanZ,
     ChanZ \o Comma \o ChanA}

SubscribeRequests ==
    [userId : {Undefined}, channels : Queries, repeated : {FALSE}]
    \cup [userId : {Undefined}, channels : {<<ChanA, ChanF>>}, repeated : {TRUE}]

PublishRequests ==
    [token : {Str("l5-etl-token"), Str("wrong")},
     service : {Str("etl")},
     workspace_id : {Str("workspace123")},
     workflow_id : {Str("workflow456")},
     function_id : {Undefined, Str("fn1")},
     logData : {Str("d1")}]

Responses == 1..Len(streams)

PingCount(stream) == Len(SelectSeq(stream, LAMBDA r : r.shape = "ping"))

RECURSIVE PingTotal(_)
PingTotal(ss) == IF ss = <<>> THEN 0 ELSE PingCount(Head(ss)) + PingTotal(Tail(ss))

\* The events a behaviour of the model has spent: accepted subscribes,
\* broadcasts and heartbeat writes
Events == Len(streams) + broadcasts + PingTotal(streams)

-----------------------------------------------------------------------------
(* The gateway *)

InitGateway ==
    /\ connections = <<>>
    /\ logChannels = <<>>
    /\ stats = [totalConnections |-> 0, logsPublished |-> 0]
    /\ streams = <<>>
    /\ timers = {}
    /\ sockets = {}
    /\ response = [status |-> 0]
    /\ minted = 0
    /\ broadcasts = 0
    /\ drained = <<>>
    /\ clock = [now |-> 0, armed |-> <<>>, written |-> <<>>]

NoScenario == [route |-> "none"]

\* no EventSource: eventSourceRef.current is null
NoSource == [id |-> 0, readyState |-> "null", channels |-> {}]

\* the components as mounted
\* no message is being handled
NoMessage == [handled |-> <<>>, calls |-> <<>>]

\* no component has called the hook
NoOptions == [mounted |-> FALSE]

InitClient ==
    /\ eventSource = NoSource
    /\ created = 0
    /\ reconnectTimeouts = {}
    /\ reconnectTimeoutRef = 0
    /\ reconnectAttempts = 0
    /\ connectionStatus = "disconnected"
    /\ isConnected = FALSE
    /\ errors = 0
    /\ consecutiveErrors = 0
    /\ logs = <<>>
    /\ groupedLogs = <<>>
    /\ subscribersRef = <<>>
    /\ connectedChannels = {}
    /\ invoked = NoMessage
    /\ unsubscribes = {}
    /\ data = <<>>
    /\ options = NoOptions
    /\ messageCount = 0
    /\ received = 0

InitSSE ==
    /\ sseConnections = <<>>
    /\ sseChannels = <<>>
    /\ sseStats = [totalConnections |-> 0, messagesPublished |-> 0]
    /\ sseStreams = <<>>
    /\ sseSockets = {}
    /\ sseTimers = {}
    /\ sseResponse = [status |-> 0]

Init == InitGateway /\ scenario = NoScenario /\ InitClient /\ InitSSE

\* every client reads as fast as the gateway writes: nothing stays buffered
FastReaders == drained' = [r \in 1..Len(streams') |-> Len(streams'[r])]

Subscribe(requests, maxEvents) ==
    \E req \in requests :
        /\ Events < maxEvents
        /\ handleLogsSSE(req)
        /\ FastReaders
        /\ UNCHANGED <<scenario, clock, others>>

Close ==
    \E socket \in sockets :
        /\ onClose(socket)
        /\ FastReaders
        /\ UNCHANGED <<scenario, clock, others>>

Heartbeat(maxEvents) ==
    \E timer \in timers :
        /\ timer.connectionId \in DOMAIN connections => Events < maxEvents
        /\ heartbeat(timer)
        /\ FastReaders
        /\ UNCHANGED <<scenario, clock, others>>

\* the responses a write of this broadcast can fail on
Failing == SUBSET {connections[c].res : c \in DOMAIN connections}

Publish(requests, maxEvents) ==
    \E req \in requests, failing \in Failing :
        /\ Events < maxEvents
        /\ handleLogsPublish(req, failing)
        /\ FastReaders
        /\ UNCHANGED <<scenario, clock, others>>

TestPublish(requests, maxEvents) ==
    \E req \in requests, failing \in Failing :
        /\ Events < maxEvents
        /\ testLogs(req, failing)
        /\ FastReaders
        /\ UNCHANGED <<scenario, clock, others>>

Next ==
    \/ Subscribe(SubscribeRequests, MaxEvents)
    \/ Close
    \/ Heartbeat(MaxEvents)
    \/ Publish(PublishRequests, MaxEvents)
    \/ TestPublish(PublishRequests, MaxEvents)

Spec == Init /\ [][Next]_vars

-----------------------------------------------------------------------------
(* The subscribe side alone, over channel names of every shape *)

Chunks(parts) ==
    {Str(parts[1])} \cup
    {Str(parts[1]) \o Colon \o parts[2]} \cup
    {Str(parts[1]) \o Colon \o parts[2] \o Colon \o parts[3]} \cup
    {Str(parts[1]) \o Colon \o parts[2] \o Colon \o parts[3] \o Colon \o parts[4]}

WideChannels ==
    UNION {Chunks(<<type, service, workspace, resource>>) :
             type \in {"logs", "metrics"},
             service \in {Str("etl"), EmptyString},
             workspace \in {Str("workspace123"), Str("workspaceZ"), EmptyString},
             resource \in {Str("workflow456"), EmptyString,
                           Str("a") \o Colon \o Str("b")}}

NotableChannels ==
    {ChanA, ChanZ,
     Str("logs") \o Colon \o Colon \o Str("workspace123"),
     Str("logs") \o Colon \o Str("etl") \o Colon \o Str("workspace123")}

WideQueries ==
    WideChannels \cup {a \o Comma \o b : a \in NotableChannels, b \in NotableChannels}
    \cup {Undefined, EmptyString}

WideSubscribeRequests ==
    [userId : {Undefined, Str("alice")}, channels : WideQueries, repeated : {FALSE}]
    \cup [userId : {Undefined}, channels : {<<ChanA, ChanF>>}, repeated : {TRUE}]

InitSubscribe ==
    InitGateway /\ scenario \in WideSubscribeRequests /\ InitClient /\ InitSSE

NextSubscribe ==
    \/ Subscribe({scenario}, MaxSubscribeEvents)
    \/ Close
    \/ Heartbeat(MaxSubscribeEvents)

SpecSubscribe == InitSubscribe /\ [][NextSubscribe]_vars

-----------------------------------------------------------------------------
(* The publish side, over publish bodies and tokens of every shape *)

WidePublishRequests ==
    [token : {Str("l5-etl-token"), Str("service-token"), Str("wrong"), Undefined},
     service : {Str("etl"), Str("function"), Undefined},
     workspace_id : {Str("workspace123")},
     workflow_id : {Undefined, Str("workflow456")},
     function_id : {Undefined, Str("fn1")},
     logData : {Undefined, Str("d1")}]

PublishSideSubscribeRequests ==
    [userId : {Undefined}, channels : {ChanA, ChanF}, repeated : {FALSE}]

InitPublish ==
    InitGateway /\ scenario \in WidePublishRequests /\ InitClient /\ InitSSE

NextPublish ==
    \/ Subscribe(PublishSideSubscribeRequests, MaxPublishEvents - 1)
    \/ Close
    \/ Publish({scenario}, MaxPublishEvents)
    \/ TestPublish({scenario}, MaxPublishEvents)

SpecPublish == InitPublish /\ [][NextPublish]_vars

-----------------------------------------------------------------------------
(* The gateway with a client that reads at its own pace.  res.write never    *)
(* waits for the client: what the socket has not taken stays in the          *)
(* response's write buffer, and the handlers never look at it.               *)

\* the client of the first response reads nothing during a handler (its
\* response starts with nothing taken); the others read as fast as written
SlowReaders ==
    drained' = [r \in 1..Len(streams') |->
                   IF r > 1 THEN Len(streams'[r])
                   ELSE IF r \in DOMAIN drained THEN drained[r] ELSE 0]

BackpressureSubscribeRequests ==
    [userId : {Undefined}, channels : {ChanA}, repeated : {FALSE}]

BufferedSubscribe ==
    \E req \in BackpressureSubscribeRequests :
        /\ Events < MaxSlowEvents
        /\ handleLogsSSE(req)
        /\ SlowReaders
        /\ UNCHANGED <<scenario, clock, others>>

BufferedClose ==
    \E socket \in sockets :
        /\ onClose(socket)
        /\ SlowReaders
        /\ UNCHANGED <<scenario, clock, others>>

BufferedHeartbeat ==
    \E timer \in timers :
        /\ timer.connectionId \in DOMAIN connections => Events < MaxSlowEvents
        /\ heartbeat(timer)
        /\ SlowReaders
        /\ UNCHANGED <<scenario, clock, others>>

BufferedPublish ==
    \E req \in PublishRequests, failing \in Failing :
        /\ Events < MaxSlowEvents
        /\ handleLogsPublish(req, failing)
        /\ SlowReaders
        /\ UNCHANGED <<scenario, clock, others>>

\* the client's socket takes the next buffered record of a response
Drain ==
    \E r \in Responses :
        /\ drained[r] < Len(streams[r])
        /\ drained' = [drained EXCEPT ![r] = @ + 1]
        /\ UNCHANGED <<connections, logChannels, stats, streams, timers, sockets,
                       response, minted, broadcasts, scenario, clock, others>>

NextBackpressure ==
    \/ BufferedSubscribe
    \/ BufferedClose
    \/ BufferedHeartbeat
    \/ BufferedPublish
    \/ Drain

SpecBackpressure == Init /\ [][NextBackpressure]_vars

-----------------------------------------------------------------------------
(* The gateway under Node's scheduling.  A publish request that has arrived  *)
(* waits in the event loop until its route handler runs; so does the 'close' *)
(* event of a request.  The event loop runs every callback that is ready.    *)
(* Nothing obliges a client to read.                                         *)

InFlight(req) == [route |-> "publish", req |-> req]

LiveSubscribe ==
    \E req \in BackpressureSubscribeRequests :
        /\ Events < MaxLiveEvents
        /\ handleLogsSSE(req)
        /\ SlowReaders
        /\ UNCHANGED <<scenario, clock, others>>

LiveHeartbeat ==
    \E timer \in timers :
        /\ timer.connectionId \in DOMAIN connections => Events < MaxLiveEvents
        /\ heartbeat(timer)
        /\ SlowReaders
        /\ UNCHANGED <<scenario, clock, others>>

\* a POST /api/logs/publish arrives; its handler has not run yet
PublishArrives ==
    \E req \in PublishRequests :
        /\ scenario = NoScenario
        /\ Events < MaxLiveEvents
        /\ scenario' = InFlight(req)
        /\ UNCHANGED <<connections, logChannels, stats, streams, timers, sockets,
                       response, minted, broadcasts, drained, clock, others>>

\* the route handler of the request in flight runs
PublishHandled ==
    /\ scenario /= NoScenario
    /\ \E failing \in Failing : handleLogsPublish(scenario.req, failing)
    /\ SlowReaders
    /\ scenario' = NoScenario
    /\ UNCHANGED <<clock, others>>

NextLive ==
    \/ LiveSubscribe
    \/ BufferedClose
    \/ LiveHeartbeat
    \/ PublishArrives
    \/ PublishHandled
    \/ Drain

\* the event loop runs the handler of a request that has arrived
SpecLive ==
    /\ Init
    /\ [][NextLive]_vars
    /\ WF_vars(PublishHandled)

\* and every client disconnects in the end, which emits 'close'
SpecDisconnect ==
    /\ Init
    /\ [][NextLive]_vars
    /\ WF_vars(PublishHandled)
    /\ WF_vars(BufferedClose)

-----------------------------------------------------------------------------
(* The publish side for an authorized publisher, over resource fields that are
   absent, empty or named *)

PresenceRequests ==
    [token : {Str("l5-etl-token")},
     service : {Str("etl")},
     workspace_id : {Str("workspace123")},
     workflow_id : {Undefined, EmptyString, Str("workflow456")},
     function_id : {Undefined, EmptyString, Str("fn1")},
     logData : {Str("d1")}]

InitPresence ==
    InitGateway /\ scenario \in PresenceRequests /\ InitClient /\ InitSSE

SpecPresence == InitPresence /\ [][NextPublish]_vars

-----------------------------------------------------------------------------
(* The gateway under a clock: every heartbeat interval fires on time *)

\* the heartbeat interval in ticks of the clock (25000 ms)
H == 2
\* the time a behaviour of SpecTimed runs for, and its budget of events
MaxTime == 3
MaxTimedEvents == 3

\* the responses a step writes to
Written == {r \in 1..Len(streams') : r > Len(streams) \/ streams'[r] /= streams[r]}

\* Date.now() at a handler that runs the callbacks of the intervals in fired:
\* setInterval arms an interval when the connection is accepted and again
\* each time its callback has run; no res.write touches it
Stamp(fired) ==
    clock' = [now     |-> clock.now,
              armed   |-> [r \in 1..Len(streams') |->
                              IF r > Len(streams) \/ r \in fired
                              THEN clock.now ELSE clock.armed[r]],
              written |-> [r \in 1..Len(streams') |->
                              IF r \in Written
                              THEN clock.now ELSE clock.written[r]]]

\* the interval of this timer has elapsed
Due(timer) == clock.now = clock.armed[timer.res] + H

TimedSubscribe ==
    \E req \in SubscribeRequests :
        /\ Events < MaxTimedEvents
        /\ handleLogsSSE(req)
        /\ FastReaders
        /\ Stamp({})
        /\ UNCHANGED <<scenario, others>>

TimedClose ==
    \E socket \in sockets :
        /\ onClose(socket)
        /\ FastReaders
        /\ Stamp({})
        /\ UNCHANGED <<scenario, others>>

TimedHeartbeat ==
    \E timer \in timers :
        /\ Due(timer)
        /\ timer.connectionId \in DOMAIN connections => Events < MaxTimedEvents
        /\ heartbeat(timer)
        /\ FastReaders
        /\ Stamp({timer.res})
        /\ UNCHANGED <<scenario, others>>

TimedPublish ==
    \E req \in PublishRequests, failing \in Failing :
        /\ Events < MaxTimedEvents
        /\ handleLogsPublish(req, failing)
        /\ FastReaders
        /\ Stamp({})
        /\ UNCHANGED <<scenario, others>>

\* time passes, but not past an interval that is due
Tick ==
    /\ clock.now < MaxTime
    /\ \A timer \in timers : ~Due(timer)
    /\ clock' = [clock EXCEPT !.now = @ + 1]
    /\ UNCHANGED <<connections, logChannels, stats, streams, timers, sockets,
                   response, minted, broadcasts, drained, scenario, others>>

NextTimed ==
    \/ TimedSubscribe
    \/ TimedClose
    \/ TimedHeartbeat
    \/ TimedPublish
    \/ Tick

SpecTimed == Init /\ [][NextTimed]_vars

-----------------------------------------------------------------------------
(* The gateway with the connection id as the handler builds it: the user's
   id, the millisecond of the accept and a random suffix.  Spec takes every id
   to be new; here the accepts fall into one millisecond and the suffix is any
   of the values Math.random() can give *)

\* the event budget of SpecIds and the number of values of the suffix
MaxIdEvents == 3
MaxSuffix == 2

\* Math.random().toString(36).substr(2, 9)
Suffixes == 1..MaxSuffix

DrawnSubscribe ==
    \E req \in BackpressureSubscribeRequests, suffix \in Suffixes :
        /\ Events < MaxIdEvents
        /\ accept(req, <<MockUser(req.userId).id, suffix>>)
        /\ FastReaders
        /\ UNCHANGED <<scenario, clock, others>>

NextIds ==
    \/ DrawnSubscribe
    \/ Close
    \/ Heartbeat(MaxIdEvents)
    \/ Publish(PublishRequests, MaxIdEvents)

SpecIds == Init /\ [][NextIds]_vars

-----------------------------------------------------------------------------
(* LogStreamer: the connection and its reconnects.  Each event handler and
   each timer callback runs to completion on the browser's single thread *)

maxReconnectAttempts == 5

\* the EventSources, the error events and the messages a behaviour of
\* SpecStreamer goes through
MaxSources == 7
MaxErrors == 6

Min(a, b) == IF a < b THEN a ELSE b

\* Math.min(1000 * Math.pow(2, reconnectAttempts.current), 10000)
Delay(attempts) == Min(1000 * 2^attempts, 10000)

\* connectToSSE: the EventSource in the ref is closed and a new one is made
connectToSSE ==
    /\ eventSource' = [id |-> created + 1, readyState |-> "connecting", channels |-> {}]
    /\ created' = created + 1
    /\ connectionStatus' = "connecting"

\* eventSource.onopen
onopen ==
    /\ eventSource.readyState = "connecting"
    /\ eventSource' = [eventSource EXCEPT !.readyState = "open"]
    /\ isConnected' = TRUE
    /\ connectionStatus' = "connected"
    /\ reconnectAttempts' = 0
    /\ consecutiveErrors' = 0
    /\ UNCHANGED <<created, reconnectTimeouts, reconnectTimeoutRef, errors>>

\* eventSource.onerror.  The browser goes on retrying by itself unless the
\* failure is fatal (an HTTP error status), so one EventSource can emit
\* several error events; the handler does not close it.
onerror(fatal) ==
    /\ eventSource.readyState \in {"connecting", "open"}
    /\ eventSource' = [eventSource EXCEPT
                          !.readyState = IF fatal THEN "closed" ELSE "connecting"]
    /\ isConnected' = FALSE
    /\ errors' = errors + 1
    /\ consecutiveErrors' = consecutiveErrors + 1
    /\ IF reconnectAttempts < maxReconnectAttempts
       THEN /\ reconnectTimeouts' = reconnectTimeouts \cup
                   {[id |-> errors + 1, delay |-> Delay(reconnectAttempts)]}
            /\ reconnectTimeoutRef' = errors + 1
            /\ connectionStatus' = "error"
       ELSE /\ connectionStatus' = "failed"
            /\ UNCHANGED <<reconnectTimeouts, reconnectTimeoutRef>>
    /\ UNCHANGED <<created, reconnectAttempts>>

\* the callback of a reconnect timer: reconnectAttempts.current++; connectToSSE()
reconnect(timeout) ==
    /\ reconnectTimeouts' = reconnectTimeouts \ {timeout}
    /\ reconnectAttempts' = reconnectAttempts + 1
    /\ connectToSSE
    /\ UNCHANGED <<reconnectTimeoutRef, isConnected, errors, consecutiveErrors>>

\* disconnect: clearTimeout reaches the timer whose id is in the ref only
disconnect ==
    /\ eventSource' = NoSource
    /\ reconnectTimeouts' = {t \in reconnectTimeouts : t.id /= reconnectTimeoutRef}
    /\ reconnectTimeoutRef' = 0
    /\ isConnected' = FALSE
    /\ connectionStatus' = "disconnected"
    /\ reconnectAttempts' = 0
    /\ consecutiveErrors' = 0
    /\ UNCHANGED <<created, errors>>

\* what a step of LogStreamer's connection leaves alone
StreamerFrame ==
    UNCHANGED <<logs, groupedLogs, subscribersRef, connectedChannels, invoked,
                unsubscribes, data, options, messageCount, received, gatewayVars, sseVars>>

\* the Connect button, shown while not connected and enabled unless connecting
ClickConnect ==
    /\ ~isConnected
    /\ connectionStatus /= "connecting"
    /\ created < MaxSources
    /\ connectToSSE
    /\ UNCHANGED <<reconnectTimeouts, reconnectTimeoutRef, reconnectAttempts,
                   isConnected, errors, consecutiveErrors>>
    /\ StreamerFrame

Opens == onopen /\ StreamerFrame

Fails ==
    \E fatal \in BOOLEAN :
        /\ errors < MaxErrors
        /\ onerror(fatal)
        /\ StreamerFrame

TimeoutFires ==
    \E timeout \in reconnectTimeouts :
        /\ created < MaxSources
        /\ reconnect(timeout)
        /\ StreamerFrame

\* the Disconnect button, or the cleanup of the component's effect
Disconnects == disconnect /\ StreamerFrame

NextStreamer ==
    \/ ClickConnect
    \/ Opens
    \/ Fails
    \/ TimeoutFires
    \/ Disconnects

SpecStreamer == Init /\ [][NextStreamer]_vars

-----------------------------------------------------------------------------
(* The buffers of the two clients: the logs of LogStreamer and the data of
   useSSESubscription (src/unnamed/part_007).  In a behaviour of SpecBuffers
   the hook is mounted before the first log of LogStreamer or after the last,
   and LogStreamer receives nothing once the hook is mounted. *)

\* logs delivered to LogStreamer in a behaviour of SpecBuffers
MaxMessages == 101
\* messages handed to the hook's callback in a behaviour of SpecBuffers
MaxHookMessages == 4

\* array.slice(0, end) for end >= 0
Slice(array, end) == SubSeq(array, 1, Min(end, Len(array)))

\* mutant: the new log is put behind the logs already kept
onmessage_Appends(event) ==
    IF ~event.parses
    THEN UNCHANGED <<logs, groupedLogs>>
    ELSE LET logData == event.logData
             execId == logData.execID
             group == IF execId \in DOMAIN groupedLogs THEN groupedLogs[execId] ELSE <<>>
         IN  /\ logs' = Slice(logs \o <<logData>>, 100)
             /\ groupedLogs' =
                    IF Truthy(execId)
                    THEN MapSet(groupedLogs, execId, Slice(group \o <<logData>>, 20))
                    ELSE groupedLogs

\* eventSource.onmessage of LogStreamer; event.parses tells whether
\* JSON.parse(event.data) returns, logData.execID is logData.meta?.execID
onmessage(event) ==
    IF ~event.parses
    THEN UNCHANGED <<logs, groupedLogs>>
    ELSE LET logData == event.logData
             execId == logData.execID
             group == IF execId \in DOMAIN groupedLogs THEN groupedLogs[execId] ELSE <<>>
         IN  /\ logs' = Slice(<<logData>> \o logs, 100)
             /\ groupedLogs' =
                    IF Truthy(execId)
                    THEN MapSet(groupedLogs, execId, Slice(<<logData>> \o group, 20))
                    ELSE groupedLogs

\* useSSESubscription(channels, options): the defaults of the destructuring
useSSESubscription(given) ==
    /\ options' = [mounted |-> TRUE,
                   accumulate |-> IF "accumulate" \in DOMAIN given
                                  THEN given.accumulate ELSE TRUE,
                   maxItems |-> IF "maxItems" \in DOMAIN given
                                THEN given.maxItems ELSE 100,
                   transform |-> given.transform,
                   filter |-> given.filter]
    /\ data' = <<>>
    /\ messageCount' = 0

\* filter: (data) => data.event_type !== 'heartbeat'
Filter(messageData) == messageData.event_type /= "heartbeat"

\* transform: (logData) => ({ ...logData, source: 'sse' })
Transform(messageData) == [messageData EXCEPT !.source = "sse"]

\* handleMessage of the hook
handleMessage(messageData) ==
    IF options.filter /\ ~Filter(messageData)
    THEN UNCHANGED <<data, messageCount>>
    ELSE LET processedData ==
                 IF options.transform THEN Transform(messageData) ELSE messageData
         IN  /\ messageCount' = messageCount + 1
             /\ data' = IF options.accumulate
                        THEN Slice(<<processedData>> \o data, options.maxItems)
                        ELSE <<processedData>>

\* the message events LogStreamer may receive next: one that does not parse,
\* and logs numbered in the order of arrival.  Logs of execution e1 arrive at
\* any time, the others while every log kept is of e1.
MessageEvents ==
    LET free == \A i \in DOMAIN logs : logs[i].execID = Str("e1")
    IN  {[parses |-> TRUE, logData |-> [n |-> received + 1, execID |-> e]] :
            e \in IF free THEN {Undefined, Str("e1"), Str("e2")} ELSE {Str("e1")}}
        \cup {[parses |-> FALSE]}

\* the options a component passes: each may be absent
GivenOptions ==
    [transform : BOOLEAN, filter : BOOLEAN]
    \cup [accumulate : BOOLEAN, transform : BOOLEAN, filter : BOOLEAN]
    \cup [maxItems : {1, 2}, transform : BOOLEAN, filter : BOOLEAN]
    \cup [accumulate : BOOLEAN, maxItems : {1, 2}, transform : BOOLEAN, filter : BOOLEAN]

\* the messages SSEProvider may hand to the hook next
HookMessages ==
    {[n |-> messageCount + 1, event_type |-> t, source |-> "gateway"] :
        t \in {"heartbeat", "step"}}

BuffersFrame ==
    UNCHANGED <<eventSource, created, reconnectTimeouts, reconnectTimeoutRef,
                reconnectAttempts, connectionStatus, isConnected, errors,
                consecutiveErrors, subscribersRef, connectedChannels, invoked,
                unsubscribes, gatewayVars, sseVars>>

StreamerMessage ==
    \E event \in MessageEvents :
        /\ ~options.mounted
        /\ received < MaxMessages
        /\ onmessage(event)
        /\ received' = IF event.parses THEN received + 1 ELSE received
        /\ UNCHANGED <<data, options, messageCount>>
        /\ BuffersFrame

HookMount ==
    \E given \in GivenOptions :
        /\ ~options.mounted
        /\ received \in {0, MaxMessages}
        /\ useSSESubscription(given)
        /\ UNCHANGED <<logs, groupedLogs, received>>
        /\ BuffersFrame

HookMessage ==
    \E messageData \in HookMessages :
        /\ options.mounted
        /\ messageCount < MaxHookMessages
        /\ handleMessage(messageData)
        /\ UNCHANGED <<logs, groupedLogs, options, received>>
        /\ BuffersFrame

NextBuffers ==
    \/ StreamerMessage
    \/ HookMount
    \/ HookMessage

SpecBuffers == Init /\ [][NextBuffers]_vars

-----------------------------------------------------------------------------
(* SSEGateway (src/sse-gateway/server/gateway.js).  As in the logs gateway,
   one handler invocation is one action *)

\* the event budget of a behaviour of SpecSSE: accepted connections,
\* broadcasts and heartbeat writes
MaxSseEvents == 3

Star == <<"*">>
Null == <<"#null">>

\* case 'logs' | 'metrics' | 'workflows': params[0] is the workspace;
\* case 'alerts': params[0] is the user
validateUserChannelAccess(user, channel) ==
    LET channelType == Component(channel, 1)
        param == Component(channel, 2)
    IN  IF channelType \in {Str("logs"), Str("metrics"), Str("workflows")}
        THEN param \in Range(user.workspace_ids)
        ELSE IF channelType = Str("alerts")
        THEN param = user.id
        ELSE FALSE

getUserAllowedChannels(user, requestedChannels) ==
    SelectSeq(requestedChannels, LAMBDA channel : validateUserChannelAccess(user, channel))

\* validTokens[token] || null
validateServiceToken(token) ==
    IF token = Str("l5-etl-service-token") THEN Str("l5-etl-service")
    ELSE IF token = Str("faas-service-token") THEN Str("faas-service")
    ELSE IF token = Str("analytics-service-token") THEN Str("analytics-service")
    ELSE Null

\* servicePermissions[serviceName] || []
servicePermissions(serviceName) ==
    IF serviceName = Str("l5-etl-service")
    THEN <<Str("logs") \o Colon \o Star, Str("metrics") \o Colon \o Star>>
    ELSE IF serviceName = Str("faas-service")
    THEN <<Str("workflows") \o Colon \o Star, Str("functions") \o Colon \o Star>>
    ELSE IF serviceName = Str("analytics-service")
    THEN <<Str("metrics") \o Colon \o Star, Str("dashboards") \o Colon \o Star>>
    ELSE <<>>

\* channel.startsWith(prefix)
StartsWith(channel, prefix) ==
    /\ Len(channel) >= Len(prefix)
    /\ SubSeq(channel, 1, Len(prefix)) = prefix

matchesChannelPattern(channel, pattern) ==
    IF pattern /= <<>> /\ pattern[Len(pattern)] = Star[1]
    THEN StartsWith(channel, SubSeq(pattern, 1, Len(pattern) - 1))
    ELSE channel = pattern

\* for a channel that is a string
validateChannelAccess(serviceToken, channel) ==
    LET serviceName == validateServiceToken(serviceToken)
    IN  IF serviceName = Null THEN FALSE
        ELSE \E i \in DOMAIN servicePermissions(serviceName) :
                 matchesChannelPattern(channel, servicePermissions(serviceName)[i])

RECURSIVE sseRemoveFromChannels(_, _, _)
sseRemoveFromChannels(chs, list, userId) ==
    IF list = <<>> THEN chs
    ELSE LET channel == Head(list)
             after ==
                 IF channel \in DOMAIN chs
                 THEN LET channelSubscribers == SetDelete(chs[channel], userId)
                      IN  IF Len(channelSubscribers) = 0
                          THEN MapDelete(chs, channel)
                          ELSE MapSet(chs, channel, channelSubscribers)
                 ELSE chs
         IN  sseRemoveFromChannels(after, Tail(list), userId)

\* SSEGateway.removeConnection(userId), on the pair of indexes
sseRemoveConnection(reg, userId) ==
    IF userId \in DOMAIN reg.connections
    THEN [connections |-> MapDelete(reg.connections, userId),
          channels |-> sseRemoveFromChannels(reg.channels,
                           reg.connections[userId].channels, userId)]
    ELSE reg

RECURSIVE sseSubscribe(_, _, _)
sseSubscribe(chs, list, userId) ==
    IF list = <<>> THEN chs
    ELSE LET channel == Head(list)
             set == IF channel \in DOMAIN chs THEN chs[channel] ELSE <<>>
         IN  sseSubscribe(MapSet(chs, channel, SetAdd(set, userId)), Tail(list), userId)

\* GET /api/sse
handleSSEConnection(req) ==
    LET user == MockUser(req.userId)
        userId == user.id
        res == Len(sseStreams) + 1
        requestedChannels ==
            IF Truthy(req.channels) THEN Split(req.channels, ",") ELSE <<>>
        allowedChannels == getUserAllowedChannels(user, requestedChannels)
        connectionData == [res |-> res, channels |-> allowedChannels, messagesSent |-> 0]
    IN  /\ sseConnections' = MapSet(sseConnections, userId, connectionData)
        /\ sseStats' = [sseStats EXCEPT !.totalConnections = @ + 1]
        /\ sseChannels' = sseSubscribe(sseChannels, allowedChannels, userId)
        /\ sseStreams' = Append(sseStreams,
               <<[shape |-> "handshake", type |-> "connection", status |-> "connected",
                  channels |-> allowedChannels]>>)
        /\ sseSockets' = sseSockets \cup {[userId |-> userId, res |-> res]}
        /\ sseTimers' = sseTimers \cup {[userId |-> userId, res |-> res]}
        /\ sseResponse' = [status |-> 200]

\* req.on('close', () => this.removeConnection(userId))
sseOnClose(socket) ==
    LET reg == sseRemoveConnection(
                   [connections |-> sseConnections, channels |-> sseChannels],
                   socket.userId)
    IN  /\ sseSockets' = sseSockets \ {socket}
        /\ sseConnections' = reg.connections
        /\ sseChannels' = reg.channels
        /\ UNCHANGED <<sseStats, sseStreams, sseTimers, sseResponse>>

\* the setInterval callback of one accepted request
sseHeartbeat(timer) ==
    IF timer.userId \in DOMAIN sseConnections
    THEN /\ sseStreams' = [sseStreams EXCEPT ![timer.res] = Append(@, [shape |-> "ping"])]
         /\ UNCHANGED <<sseConnections, sseChannels, sseStats, sseSockets, sseTimers,
                        sseResponse>>
    ELSE /\ sseTimers' = sseTimers \ {timer}
         /\ UNCHANGED <<sseConnections, sseChannels, sseStats, sseSockets, sseStreams,
                        sseResponse>>

\* subscribers.forEach of broadcastToChannel over the members still to visit.
\* A write that throws unregisters the user being visited and nobody else,
\* so the members to visit are those the set had when the pass began.
RECURSIVE sseForEach(_, _, _, _, _)
sseForEach(st, rest, channel, payload, failing) ==
    IF rest = <<>> THEN st
    ELSE LET userId == Head(rest)
         IN  IF userId \notin DOMAIN st.connections
             THEN sseForEach(st, Tail(rest), channel, payload, failing)
             ELSE
             LET connection == st.connections[userId]
                 message == [shape |-> "data", channel |-> channel, data |-> payload]
                 written ==
                     [st EXCEPT
                        !.streams[connection.res] = Append(@, message),
                        !.connections[userId].messagesSent = @ + 1,
                        !.delivered = @ + 1]
                 reg == sseRemoveConnection(
                            [connections |-> st.connections, channels |-> st.channels],
                            userId)
                 caught == [st EXCEPT !.connections = reg.connections,
                                      !.channels = reg.channels]
             IN  sseForEach(IF connection.res \in failing THEN caught ELSE written,
                            Tail(rest), channel, payload, failing)

broadcastToChannel(channel, payload, failing) ==
    sseForEach([connections |-> sseConnections, channels |-> sseChannels,
                streams |-> sseStreams, delivered |-> 0],
               IF channel \in DOMAIN sseChannels THEN sseChannels[channel] ELSE <<>>,
               channel, payload, failing)

\* POST /api/sse/publish
handleEventPublish(req, failing) ==
    IF validateServiceToken(req.token) = Null
    THEN /\ sseResponse' = [status |-> 403, error |-> "Invalid service token"]
         /\ UNCHANGED <<sseConnections, sseChannels, sseStats, sseStreams, sseSockets,
                        sseTimers>>
    ELSE IF req.channel = Undefined
    THEN \* channel.startsWith is read on undefined: the handler throws and
         \* Express answers 500
         /\ sseResponse' = [status |-> 500]
         /\ UNCHANGED <<sseConnections, sseChannels, sseStats, sseStreams, sseSockets,
                        sseTimers>>
    ELSE IF ~validateChannelAccess(req.token, req.channel)
    THEN /\ sseResponse' = [status |-> 403,
                            error |-> "Service not authorized for this channel"]
         /\ UNCHANGED <<sseConnections, sseChannels, sseStats, sseStreams, sseSockets,
                        sseTimers>>
    ELSE LET st == broadcastToChannel(req.channel, req.data, failing)
         IN  /\ sseConnections' = st.connections
             /\ sseChannels' = st.channels
             /\ sseStreams' = st.streams
             /\ sseStats' = [sseStats EXCEPT !.messagesPublished = @ + 1]
             /\ sseResponse' = [status |-> 200, success |-> TRUE, channel |-> req.channel,
                                delivered |-> st.delivered]
             /\ UNCHANGED <<sseSockets, sseTimers>>

SseLogs == Str("logs") \o Colon \o Str("workspace123") \o Colon \o Str("wf1")
SseMetrics == Str("metrics") \o Colon \o Str("workspace123")
SseFunctions == Str("functions") \o Colon \o Str("f1")

SseConnectRequests ==
    [userId : {Undefined, Str("alice")},
     channels : {SseLogs, SseMetrics, SseLogs \o Comma \o SseMetrics}]

SsePublishRequests ==
    [token : {Str("l5-etl-service-token"), Str("faas-service-token"), Str("wrong"),
              Undefined},
     channel : {SseLogs, SseMetrics, SseFunctions, Str("logs"), Undefined},
     data : {Str("d1")}]

\* the events a behaviour of SpecSSE has spent
SseEvents ==
    Len(sseStreams) + sseStats.messagesPublished + PingTotal(sseStreams)

SseFrame == UNCHANGED <<gatewayVars, clientVars>>

SseConnect ==
    \E req \in SseConnectRequests :
        /\ SseEvents < MaxSseEvents
        /\ handleSSEConnection(req)
        /\ SseFrame

SseClose == \E socket \in sseSockets : sseOnClose(socket) /\ SseFrame

SseHeartbeat ==
    \E timer \in sseTimers :
        /\ timer.userId \in DOMAIN sseConnections => SseEvents < MaxSseEvents
        /\ sseHeartbeat(timer)
        /\ SseFrame

SsePublish ==
    \E req \in SsePublishRequests,
       failing \in SUBSET {sseConnections[u].res : u \in DOMAIN sseConnections} :
        /\ SseEvents < MaxSseEvents
        /\ handleEventPublish(req, failing)
        /\ SseFrame

NextSSE ==
    \/ SseConnect
    \/ SseClose
    \/ SseHeartbeat
    \/ SsePublish

SpecSSE == Init /\ [][NextSSE]_vars

-----------------------------------------------------------------------------
(* SSEProvider (src/sse-gateway/examples/logs-integration-example.js, from
   line 204): one EventSource for the channels of all subscribed callbacks *)

\* EventSources constructed, error events and callbacks in a behaviour of
\* SpecProvider
MaxProviderSources == 2
MaxProviderErrors == 1
MaxCallbacks == 2

\* Array.from(subscribersRef.current.keys()), as a set
getActiveChannels(subs) == DOMAIN subs

\* connect(forceReconnect) on the subscriber map subs; the pending reconnect
\* timers are left as they are
connect(forceReconnect, subs) ==
    IF eventSource /= NoSource /\ ~forceReconnect
    THEN UNCHANGED <<eventSource, created, connectionStatus>>
    ELSE IF getActiveChannels(subs) = {}
    THEN UNCHANGED <<eventSource, created, connectionStatus>>
    ELSE /\ eventSource' = [id |-> created + 1, readyState |-> "connecting",
                            channels |-> getActiveChannels(subs)]
         /\ created' = created + 1
         /\ connectionStatus' = "connecting"

\* eventSource.onopen
providerOnOpen ==
    /\ eventSource.readyState = "connecting"
    /\ eventSource' = [eventSource EXCEPT !.readyState = "open"]
    /\ connectionStatus' = "connected"
    /\ connectedChannels' = eventSource.channels
    /\ reconnectAttempts' = 0
    /\ consecutiveErrors' = 0
    /\ UNCHANGED <<created, reconnectTimeouts, reconnectTimeoutRef, errors, isConnected>>

\* mutant: the first callback that throws ends the delivery
Deliver_StopsAtThrow(callbacks, channel, throwing) ==
    LET stop == IF \E i \in DOMAIN callbacks : callbacks[i] \in throwing
                THEN CHOOSE i \in DOMAIN callbacks :
                         /\ callbacks[i] \in throwing
                         /\ \A j \in 1..(i - 1) : callbacks[j] \notin throwing
                ELSE Len(callbacks)
    IN  [i \in 1..stop |->
            [callback |-> callbacks[i], channel |-> channel,
             threw |-> callbacks[i] \in throwing]]

\* callbacks.forEach(callback => { try { callback(data, message) } catch ... })
Deliver(callbacks, channel, throwing) ==
    [i \in DOMAIN callbacks |->
        [callback |-> callbacks[i], channel |-> channel,
         threw |-> callbacks[i] \in throwing]]

\* eventSource.onmessage
providerOnMessage(event, throwing) ==
    IF ~event.parses
    THEN invoked' = [handled |-> <<event>>, calls |-> <<>>]
    ELSE IF event.message.type = "connection"
    THEN invoked' = [handled |-> <<event>>, calls |-> <<>>]
    ELSE LET channel == event.message.channel
             callbacks == IF channel \in DOMAIN subscribersRef
                          THEN subscribersRef[channel] ELSE <<>>
         IN  invoked' = [handled |-> <<event>>,
                         calls |-> Deliver(callbacks, channel, throwing)]

\* the setTimeout callback of onerror
providerReconnect(timeout) ==
    /\ reconnectTimeouts' = reconnectTimeouts \ {timeout}
    /\ reconnectAttempts' = reconnectAttempts + 1
    /\ connect(TRUE, subscribersRef)
    /\ UNCHANGED <<reconnectTimeoutRef, isConnected, errors, consecutiveErrors>>

\* disconnect()
providerDisconnect ==
    /\ eventSource' = NoSource
    /\ reconnectTimeouts' = {t \in reconnectTimeouts : t.id /= reconnectTimeoutRef}
    /\ reconnectTimeoutRef' = 0
    /\ connectionStatus' = "disconnected"
    /\ connectedChannels' = {}
    /\ reconnectAttempts' = 0
    /\ consecutiveErrors' = 0
    /\ UNCHANGED <<created, errors, isConnected>>

RECURSIVE AddCallback(_, _, _)
AddCallback(subs, list, callback) ==
    IF list = <<>> THEN subs
    ELSE LET channel == Head(list)
             set == IF channel \in DOMAIN subs THEN subs[channel] ELSE <<>>
         IN  AddCallback(MapSet(subs, channel, SetAdd(set, callback)), Tail(list), callback)

RECURSIVE DeleteCallback(_, _, _)
DeleteCallback(subs, list, callback) ==
    IF list = <<>> THEN subs
    ELSE LET channel == Head(list)
             after ==
                 IF channel \in DOMAIN subs
                 THEN LET callbacks == SetDelete(subs[channel], callback)
                      IN  IF Len(callbacks) = 0
                          THEN MapDelete(subs, channel)
                          ELSE MapSet(subs, channel, callbacks)
                 ELSE subs
         IN  DeleteCallback(after, Tail(list), callback)

\* subscribe(channels, callback); the closure it returns keeps the channels,
\* the callback and currentChannels
subscribe(list, callback) ==
    LET subs == AddCallback(subscribersRef, list, callback)
        currentChannels == getActiveChannels(subs)
        needsReconnect ==
            \/ eventSource = NoSource
            \/ ~(\A ch \in Range(list) : ch \in connectedChannels)
    IN  /\ subscribersRef' = subs
        /\ IF needsReconnect
           THEN connect(TRUE, subs)
           ELSE UNCHANGED <<eventSource, created, connectionStatus>>
        /\ unsubscribes' = unsubscribes \cup
               {[channels |-> list, callback |-> callback,
                 currentChannels |-> currentChannels]}
        /\ UNCHANGED <<reconnectTimeouts, reconnectTimeoutRef, reconnectAttempts,
                       connectedChannels, consecutiveErrors, errors, isConnected>>

\* the closure subscribe returned
unsubscribe(closure) ==
    LET subs == DeleteCallback(subscribersRef, closure.channels, closure.callback)
        newChannels == getActiveChannels(subs)
    IN  /\ subscribersRef' = subs
        /\ unsubscribes' = unsubscribes \ {closure}
        /\ IF Cardinality(newChannels) = 0
           THEN providerDisconnect
           ELSE IF Cardinality(newChannels) /= Cardinality(closure.currentChannels)
           THEN /\ connect(TRUE, subs)
                /\ UNCHANGED <<reconnectTimeouts, reconnectTimeoutRef, reconnectAttempts,
                               connectedChannels, consecutiveErrors, errors, isConnected>>
           ELSE UNCHANGED <<eventSource, created, connectionStatus, reconnectTimeouts,
                            reconnectTimeoutRef, reconnectAttempts, connectedChannels,
                            consecutiveErrors, errors, isConnected>>

\* the events an open EventSource may deliver: the handshake, an event of a
\* channel, data that does not parse
ProviderEvents ==
    {[parses |-> FALSE], [parses |-> TRUE, message |-> [type |-> "connection"]]}
    \cup {[parses |-> TRUE, message |-> [type |-> "event", channel |-> c]] :
             c \in {SseLogs, SseMetrics, SseFunctions}}

\* the callbacks an event is handed to, each of which may throw
Addressed(event) ==
    IF event.parses /\ event.message.type = "event"
                   /\ event.message.channel \in DOMAIN subscribersRef
    THEN Range(subscribersRef[event.message.channel])
    ELSE {}

ProviderFrame ==
    UNCHANGED <<logs, groupedLogs, data, options, messageCount, received,
                gatewayVars, sseVars>>

ProviderSubscribes ==
    \E list \in {<<SseLogs>>, <<SseMetrics>>, <<SseLogs, SseMetrics>>},
       callback \in 1..MaxCallbacks :
        /\ \A closure \in unsubscribes : closure.callback /= callback
        /\ subscribe(list, callback)
        /\ created' <= MaxProviderSources
        /\ invoked' = NoMessage
        /\ ProviderFrame

ProviderUnsubscribes ==
    \E closure \in unsubscribes :
        /\ unsubscribe(closure)
        /\ created' <= MaxProviderSources
        /\ invoked' = NoMessage
        /\ ProviderFrame

ProviderOpens ==
    /\ providerOnOpen
    /\ invoked' = NoMessage
    /\ UNCHANGED <<subscribersRef, unsubscribes>>
    /\ ProviderFrame

ProviderMessage ==
    \E event \in ProviderEvents :
      \E throwing \in SUBSET Addressed(event) :
        /\ eventSource.readyState = "open"
        /\ providerOnMessage(event, throwing)
        /\ UNCHANGED <<eventSource, created, reconnectTimeouts, reconnectTimeoutRef,
                       reconnectAttempts, connectionStatus, isConnected, errors,
                       consecutiveErrors, subscribersRef, connectedChannels, unsubscribes>>
        /\ ProviderFrame

ProviderFails ==
    \E fatal \in BOOLEAN :
        /\ errors < MaxProviderErrors
        /\ onerror(fatal)
        /\ invoked' = NoMessage
        /\ UNCHANGED <<subscribersRef, connectedChannels, unsubscribes>>
        /\ ProviderFrame

ProviderTimeoutFires ==
    \E timeout \in reconnectTimeouts :
        /\ providerReconnect(timeout)
        /\ created' <= MaxProviderSources
        /\ invoked' = NoMessage
        /\ UNCHANGED <<subscribersRef, connectedChannels, unsubscribes>>
        /\ ProviderFrame

ProviderUnmounts ==
    /\ providerDisconnect
    /\ invoked' = NoMessage
    /\ UNCHANGED <<subscribersRef, unsubscribes>>
    /\ ProviderFrame

NextProvider ==
    \/ ProviderSubscribes
    \/ ProviderUnsubscribes
    \/ ProviderOpens
    \/ ProviderMessage
    \/ ProviderFails
    \/ ProviderTimeoutFires
    \/ ProviderUnmounts

SpecProvider == Init /\ [][NextProvider]_vars

-----------------------------------------------------------------------------
(* Properties *)

Registered == DOMAIN connections

\* the data records of a stream, in the order they were written
DataRecords(stream) == SelectSeq(stream, LAMBDA r : r.shape = "data")

SubscribersOf(channel) ==
    IF channel \in DOMAIN logChannels THEN Range(logChannels[channel]) ELSE {}

KnownChannels ==
    DOMAIN logChannels \cup UNION {Range(connections[c].channels) : c \in Registered}

C2_OneIdPerPublish ==
    \A r1 \in Responses, r2 \in Responses :
        \A i \in 1..Len(streams[r1]), j \in 1..Len(streams[r2]) :
            (/\ streams[r1][i].shape = "data"
             /\ streams[r2][j].shape = "data"
             /\ streams[r1][i].pub = streams[r2][j].pub)
            => (/\ streams[r1][i].id = streams[r2][j].id
                /\ streams[r1][i].data = streams[r2][j].data)

C8_HandshakeFirst ==
    \A r \in Responses :
        /\ Len(streams[r]) >= 1
        /\ streams[r][1].shape = "handshake"
        /\ streams[r][1].type = "connection"
        /\ \A i \in 2..Len(streams[r]) : streams[r][i].shape /= "handshake"
        /\ \A c \in Registered :
               connections[c].res = r =>
                   /\ Range(streams[r][1].channels) = Range(connections[c].channels)
                   /\ Range(streams[r][1].channels) =
                          {channel \in DOMAIN logChannels : c \in Range(logChannels[channel])}

\* C8 witness: a stream whose handshake announces two channels is followed by a
\* data record.
C8_Witness ==
    \E r \in Responses :
        /\ Len(streams[r]) >= 2
        /\ Cardinality(Range(streams[r][1].channels)) = 2
        /\ streams[r][2].shape = "data"

\* the channels a subscribe request names: req.query.channels.split(',')
RequestedChannels(req) ==
    IF Truthy(req.channels) THEN Split(req.channels, ",") ELSE <<>>

\* logs:<service>:<workspace>[:<resource>] with non-empty service and workspace
WellFormed(channel) ==
    LET parts == Split(channel, ":")
    IN  /\ Len(parts) >= 3
        /\ parts[1] = Str("logs")
        /\ parts[2] /= EmptyString
        /\ parts[3] /= EmptyString

KnownTokens ==
    {Str("l5-etl-token"), Str("faas-token"), Str("function-token"), Str("service-token")}

\* C3: a publish is accepted only if the declared service is the service
\* component of the derived channel and the token is valid for that service;
\* any other publish is answered 403.  Stated for the requests that declare a
\* service and carry a service token (the others are C4's).
C3_ServiceMatchesChannel ==
    [][\A failing \in Failing :
          (/\ scenario.service /= Undefined
           /\ scenario.token \in KnownTokens
           /\ handleLogsPublish(scenario, failing))
          => IF /\ scenario.service = Component(PublishChannel(scenario), 2)
                /\ validateLogPublisher(scenario.token, scenario.service)
             THEN TRUE
             ELSE /\ response'.status = 403
                  /\ UNCHANGED <<connections, logChannels, streams, stats>>]_vars

\* C4: a publish whose token is not a service token is answered 403 and changes
\* neither the streams, the connections, the indexes nor the counters.
C4_InvalidTokenNoEffect ==
    [][\A failing \in Failing :
          (/\ scenario.token \notin KnownTokens
           /\ handleLogsPublish(scenario, failing))
          => /\ response'.status = 403
             /\ UNCHANGED <<connections, logChannels, streams, stats>>]_vars

\* C5 as claimed: a POST /test/logs step does what POST /api/logs/publish does
\* for the same request in the same state: same authorization, same channel,
\* same deliveries, same counters.
C5_TestEqualsPublish ==
    [][\A failing \in Failing :
          (/\ "logData" \in DOMAIN response'
           /\ testLogs(scenario, failing))
          => IF ~validateLogPublisher(scenario.token, scenario.service)
             THEN /\ response'.status = 403
                  /\ UNCHANGED <<connections, logChannels, streams, stats>>
             ELSE LET st == broadcastLog(PublishChannel(scenario), scenario.logData,
                                         failing)
                  IN  /\ response'.status = 200
                      /\ response'.channel = PublishChannel(scenario)
                      /\ response'.delivered = st.delivered
                      /\ connections' = st.connections
                      /\ logChannels' = st.logChannels
                      /\ streams' = st.streams
                      /\ stats' = [stats EXCEPT !.logsPublished = @ + 1]]_vars

\* the publish body POST /test/logs stands for: defaults filled in, no
\* function_id, and a token that is valid for every service
AsPublish(req) ==
    [token |-> Str("service-token"),
     service |-> Default(req.service, Str("etl")),
     workspace_id |-> Default(req.workspace_id, Str("workspace123")),
     workflow_id |-> Default(req.workflow_id, Str("workflow456")),
     function_id |-> Undefined,
     logData |-> IF Truthy(req.logData) THEN req.logData ELSE SampleLogData]

\* C5 amended: a POST /test/logs step has, on the subscribers and the registry,
\* the effect of an authorized POST /api/logs/publish of AsPublish(req): same
\* derived channel, same records to the same subscribers, same delivered.  It
\* is never answered 403 and leaves the counters unchanged.
C5_TestFansOutAsPublish ==
    [][\A failing \in Failing :
          (/\ "logData" \in DOMAIN response'
           /\ testLogs(scenario, failing))
          => LET p == AsPublish(scenario)
                 st == broadcastLog(PublishChannel(p), p.logData, failing)
             IN  /\ validateLogPublisher(p.token, p.service)
                 /\ response'.status = 200
                 /\ response'.channel = PublishChannel(p)
                 /\ response'.delivered = st.delivered
                 /\ connections' = st.connections
                 /\ logChannels' = st.logChannels
                 /\ streams' = st.streams
                 /\ stats' = stats]_vars

\* C5 witness: POST /test/logs has delivered a record to a subscriber.
C5_Witness ==
    /\ "logData" \in DOMAIN response
    /\ response.delivered >= 1
    /\ \E r \in Responses : Len(DataRecords(streams[r])) >= 1

\* C6: when a publish is accepted and no write fails, every connection
\* registered under its channel gets exactly one more record, a data record
\* carrying the published logData and the one id minted for that publish.
C6_ExactlyOneRecord ==
    [][\A req \in PublishRequests :
          (/\ broadcasts' = broadcasts + 1
           /\ validateLogPublisher(req.token, req.service)
           /\ handleLogsPublish(req, {}))
          => \E id \in (minted + 1)..(minted + Cardinality(Registered) + 1) :
                 \A c \in Registered :
                     PublishChannel(req) \in Range(connections[c].channels)
                     => LET r == connections[c].res
                        IN  /\ Len(streams'[r]) = Len(streams[r]) + 1
                            /\ streams'[r][Len(streams'[r])].shape = "data"
                            /\ streams'[r][Len(streams'[r])].id = id
                            /\ streams'[r][Len(streams'[r])].data = req.logData]_vars

\* C9: a well-formed channel of the subscribe request under examination is in
\* the channel set of the connection accepted for it exactly when its workspace component is one of the principal's
\* workspaces.
C9_WorkspaceDecides ==
    \A c \in Registered :
        \A channel \in Range(RequestedChannels(scenario)) :
            WellFormed(channel)
            => (channel \in Range(connections[c].channels)
                <=> Component(channel, 3) \in Range(MockUser(scenario.userId).workspace_ids))

\* C9 witness: of two well-formed channels that name a resource, one request
\* had the first accepted and the second dropped.
C9_Witness ==
    \E c \in Registered :
        \E kept \in Range(RequestedChannels(scenario)),
           dropped \in Range(RequestedChannels(scenario)) :
            /\ WellFormed(kept) /\ Len(Split(kept, ":")) = 4
            /\ WellFormed(dropped) /\ Len(Split(dropped, ":")) = 4
            /\ kept \in Range(connections[c].channels)
            /\ dropped \notin Range(connections[c].channels)

\* C10: no connection is ever registered under a malformed channel name.
C10_MalformedDropped ==
    \A c \in Registered :
        \A channel \in Range(connections[c].channels) : WellFormed(channel)

\* a channel the mock principal may read: logs:<service>:<workspace>[:...] with
\* the workspace one of the principal's two
Authorized(channel) ==
    LET parts == Split(channel, ":")
    IN  /\ Len(parts) >= 3
        /\ parts[1] = Str("logs")
        /\ parts[3] \in {Str("workspace123"), Str("workspace456")}

\* C11: a subscribe that names unauthorized channels is still answered 200; its
\* handshake and its connection list exactly the authorized ones of the
\* request, in the order requested; a connection whose handshake lists no
\* channel gets heartbeats after it and never a data record.
C11_UnauthorizedOmitted ==
    [][/\ \A req \in SubscribeRequests :
              (/\ ~req.repeated
               /\ Len(streams') = Len(streams) + 1
               /\ handleLogsSSE(req))
              => LET h == streams'[Len(streams')][1]
                 IN  /\ response'.status = 200
                     /\ h.shape = "handshake"
                     /\ h.channels = SelectSeq(RequestedChannels(req), Authorized)
                     /\ h.connectionId \in DOMAIN connections'
                     /\ connections'[h.connectionId].channels = h.channels
       /\ \A r \in Responses :
              (streams[r][1].channels = <<>> /\ streams'[r] /= streams[r])
              => streams'[r] = Append(streams[r], Ping)]_vars

\* C11 witness: a connection accepted with no channel has had a heartbeat, and
\* a publish has been fanned out since the gateway started.
C11_Witness ==
    \E r \in Responses :
        /\ streams[r][1].channels = <<>>
        /\ Len(streams[r]) >= 2
        /\ r \in {connections[c].res : c \in Registered}
        /\ broadcasts >= 1

\* the members of a sequence, each once, in the order of their first occurrence
RECURSIVE Dedup(_)
Dedup(seq) ==
    IF seq = <<>> THEN <<>>
    ELSE <<Head(seq)>> \o SelectSeq(Dedup(Tail(seq)), LAMBDA x : x /= Head(seq))

\* the strings of a non-empty sequence joined by the delimiter d
RECURSIVE Join(_, _)
Join(seq, d) ==
    IF Len(seq) = 1 THEN seq[1] ELSE seq[1] \o d \o Join(Tail(seq), d)

\* the subscribe request that names each channel of req once
NamedOnce(req) ==
    IF req.repeated \/ ~Truthy(req.channels) THEN req
    ELSE [req EXCEPT !.channels = Join(Dedup(Split(@, ",")), Comma)]

\* C12: a subscribe request that names a channel more than once has the outcome
\* of the request naming each channel once: same connection record, same
\* handshake, same reverse index (hence the same later deliveries).  Stated
\* for requests whose channel names are all well-formed.
C12_DuplicatesAsOne ==
    [][(/\ \A channel \in Range(RequestedChannels(scenario)) : WellFormed(channel)
        /\ handleLogsSSE(scenario))
       => handleLogsSSE(NamedOnce(scenario))]_vars

\* the capacity Q of a connection's send queue
Q == 2

\* the data records accepted for a response and not yet taken by its socket
Pending(r) == Len(DataRecords(SubSeq(streams[r], drained[r] + 1, Len(streams[r]))))

\* C13: no connection ever has more than Q envelopes accepted and not yet
\* written: a publish that finds Q of them waiting does not add another.
C13_QueueBounded == \A r \in Responses : Pending(r) <= Q

C15_PublishNeverWaits == (scenario /= NoScenario) ~> (scenario = NoScenario)

\* C15 witness: a publish was answered 200 while a subscriber of its channel
\* had not yet taken the record of an earlier publish.
C15_Witness ==
    /\ scenario = NoScenario
    /\ response.status = 200
    /\ "delivered" \in DOMAIN response
    /\ \E r \in Responses :
           /\ response.channel \in Range(streams[r][1].channels)
           /\ Pending(r) >= 2
           /\ response.delivered >= 1

\* the connection accepted on response r is in the primary or the reverse index
Indexed(r) ==
    \/ \E c \in Registered : connections[c].res = r
    \/ \E channel \in DOMAIN logChannels :
           \E c \in Range(logChannels[channel]) : c[2] = r

Handed == {r \in Responses : Len(DataRecords(streams'[r])) = Len(DataRecords(streams[r])) + 1}

\* C16: a step that fans a record out answers with success and with delivered
\* equal to the number of connections handed the record, 0 when the channel
\* has no subscriber; exactly the connections handed a record have logsSent
\* one higher; no other step (subscribe, heartbeat, close) writes a data
\* record or changes a logsSent, and a new connection starts with logsSent 0.
C16_DeliveredCounts ==
    [][/\ broadcasts' = broadcasts + 1
          => /\ response'.status = 200
             /\ response'.success
             /\ response'.delivered = Cardinality(Handed)
             /\ SubscribersOf(response'.channel) = {} => response'.delivered = 0
       /\ broadcasts' = broadcasts => Handed = {}
       /\ \A r \in Handed : \E c \in Registered : connections[c].res = r
       /\ \A c \in Registered :
              IF connections[c].res \in Handed
              THEN /\ c \in DOMAIN connections'
                   /\ connections'[c].logsSent = connections[c].logsSent + 1
              ELSE c \in DOMAIN connections'
                   => connections'[c].logsSent = connections[c].logsSent
       /\ \A c \in DOMAIN connections' \ Registered : connections'[c].logsSent = 0]_vars

\* C16 witness: a connection that has had a heartbeat was handed the record
\* of a publish answered delivered = 1, and counts one message sent.
C16_Witness ==
    /\ "delivered" \in DOMAIN response
    /\ response.delivered = 1
    /\ \E c \in Registered :
           /\ connections[c].logsSent = 1
           /\ PingCount(streams[connections[c].res]) = 1

\* the connection ids the gateway has handed out, and one it never did
HandedOut == {streams[r][1].connectionId : r \in Responses}
UnknownId == <<Str("nobody"), 0>>

\* C18: removing a connection a second time changes nothing, removing an id
\* that is not registered (a connection already removed after a write error
\* whose socket then closes, or an id never handed out) changes nothing, and
\* a removal leaves every other connection registered, with its record and
\* its entries in the reverse index.
C18_UnregisterIdempotent ==
    \A id \in HandedOut \cup {UnknownId} :
        LET once == removeConnection(Registry, id)
        IN  /\ removeConnection(once, id) = once
            /\ id \notin Registered => once = Registry
            /\ \A c \in Registered \ {id} :
                   /\ c \in DOMAIN once.connections
                   /\ once.connections[c] = connections[c]
                   /\ \A channel \in Range(connections[c].channels) :
                          /\ channel \in DOMAIN once.logChannels
                          /\ c \in Range(once.logChannels[channel])

\* C18 witness: a connection was removed when a write to it threw, its socket
\* has not closed yet, and another connection of the same user is registered.
C18_Witness ==
    \E socket \in sockets :
        /\ socket.connectionId \notin Registered
        /\ \E c \in Registered : c[1] = socket.connectionId[1]

\* the response on which a connection id was handed out
ResponseOf(id) == CHOOSE r \in Responses : streams[r][1].connectionId = id

C20_NoWriteAfterClose ==
    [][\A r \in Responses :
          streams[r][1].connectionId \notin Registered
          => streams'[r] = streams[r]]_vars

\* C20 witness: a connection that had a heartbeat and a data record was
\* unregistered, and its timer has fired since and was cleared.
C20_Witness ==
    \E r \in Responses :
        /\ streams[r][1].connectionId \notin Registered
        /\ \A timer \in timers : timer.res /= r
        /\ PingCount(streams[r]) >= 1
        /\ Len(DataRecords(streams[r])) >= 1

-----------------------------------------------------------------------------

\* the channel count GET /health reports
ReportedChannels == Cardinality(DOMAIN logChannels)

\* C21: the channel index never holds a channel with an empty subscriber set:
\* every key of logChannels maps to a non-empty set, so the channel count that
\* /health reports is the number of channels some registered connection is
\* subscribed to.
C21_NoEmptyChannel ==
    /\ \A channel \in DOMAIN logChannels : Len(logChannels[channel]) > 0
    /\ ReportedChannels =
           Cardinality({channel \in KnownChannels : SubscribersOf(channel) /= {}})

\* a connection that was alone on a channel has been unregistered, the
\* channel's key is gone, and another channel is still indexed
C21_Witness ==
    /\ logChannels /= <<>>
    /\ \E r \in DOMAIN streams :
           /\ streams[r][1].connectionId \notin Registered
           /\ \E channel \in Range(streams[r][1].channels) :
                  channel \notin DOMAIN logChannels
-----------------------------------------------------------------------------

\* C22: a heartbeat is an idle signal: a heartbeat is written to a connection
\* only when nothing has been written to it for the full interval H, that is
\* exactly H after the last write.
C22_HeartbeatOnlyWhenIdle ==
    [][\A r \in DOMAIN streams :
           streams'[r] = Append(streams[r], Ping)
               => clock.now = clock.written[r] + H]_vars
-----------------------------------------------------------------------------

\* the channel the rule of precedence names, for a given reading of "present"
ByPrecedence(Present(_), req) ==
    LET prefix(service) ==
            Str("logs") \o Colon \o service \o Colon \o req.workspace_id
    IN  IF Present(req.function_id)
        THEN prefix(Str("function")) \o Colon \o req.function_id
        ELSE IF Present(req.workflow_id)
        THEN prefix(req.service) \o Colon \o req.workflow_id
        ELSE prefix(req.service)

\* an accepted publish of the request under examination answers with this
\* channel and fans out to it: the records it writes carry the channel, and
\* every registered subscriber of the channel whose write succeeds gets one
FansOutTo(channel, failing) ==
    /\ response'.status = 200
    /\ response'.channel = channel
    /\ \A r \in Written : streams'[r][Len(streams'[r])].channel = channel
    /\ \A c \in Registered :
           (channel \in Range(connections[c].channels)
               /\ connections[c].res \notin failing)
           => connections[c].res \in Written

\* C23 as claimed: the target channel is derived by field presence, a field
\* of the body being present when the body carries it:
\* logs:function:<workspace_id>:<function_id> if function_id is present, else
\* logs:<service>:<workspace_id>:<workflow_id> if workflow_id is present, else
\* logs:<service>:<workspace_id>; the response's channel is the one fanned out to.
C23_ChannelByPresence ==
    [][\A failing \in Failing :
          (/\ broadcasts' = broadcasts + 1
           /\ handleLogsPublish(scenario, failing))
          => FansOutTo(ByPrecedence(LAMBDA v : v /= Undefined, scenario),
                       failing)]_vars

\* C23 amended: the same, a field being present when the body carries it with
\* a non-empty value.
C23_ChannelByNonEmpty ==
    [][\A failing \in Failing :
          (/\ broadcasts' = broadcasts + 1
           /\ handleLogsPublish(scenario, failing))
          => FansOutTo(ByPrecedence(LAMBDA v : v \notin {Undefined, EmptyString},
                                    scenario),
                       failing)]_vars

\* C23 witness: a publish that carries both function_id and workflow_id has
\* delivered a record on the function channel.
C23_Witness ==
    /\ scenario \in PresenceRequests
    /\ scenario.function_id = Str("fn1")
    /\ scenario.workflow_id = Str("workflow456")
    /\ "delivered" \in DOMAIN response
    /\ response.delivered = 1
    /\ \E r \in DOMAIN streams :
           /\ Len(streams[r]) > 1
           /\ streams[r][Len(streams[r])].shape = "data"
           /\ streams[r][Len(streams[r])].channel = ChanF
-----------------------------------------------------------------------------

\* the registered subscribers of a channel whose write throws / succeeds
Thrown(channel, failing) ==
    {c \in SubscribersOf(channel) \cap Registered : connections[c].res \in failing}
Reached(channel, failing) ==
    {c \in SubscribersOf(channel) \cap Registered : connections[c].res \notin failing}

\* C24: a write error to one subscriber during fan-out is not propagated to
\* the publisher: the publish is answered success with delivered counting the
\* other subscribers, every other subscriber of the channel receives the
\* record, and the failing subscriber is unregistered.
C24_WriteErrorContained ==
    [][\A req \in PublishRequests, failing \in Failing :
          (/\ broadcasts' = broadcasts + 1
           /\ validateLogPublisher(req.token, req.service)
           /\ Thrown(PublishChannel(req), failing) /= {}
           /\ handleLogsPublish(req, failing))
          => LET channel == PublishChannel(req)
             IN  /\ response'.status = 200
                 /\ response'.success
                 /\ response'.delivered = Cardinality(Reached(channel, failing))
                 /\ \A c \in Reached(channel, failing) :
                        LET r == connections[c].res
                        IN  /\ c \in DOMAIN connections'
                            /\ streams'[r] =
                                   Append(streams[r], streams'[r][Len(streams'[r])])
                            /\ streams'[r][Len(streams'[r])].shape = "data"
                            /\ streams'[r][Len(streams'[r])].data = req.logData
                 /\ \A c \in Thrown(channel, failing) :
                        /\ c \notin DOMAIN connections'
                        /\ \A ch \in DOMAIN logChannels' :
                               c \notin Range(logChannels'[ch])
                        /\ streams'[connections[c].res] = streams[connections[c].res]]_vars

\* C24 witness: a publish to a channel with two subscribers was answered
\* delivered 1: the first subscriber's write threw and it is unregistered
\* with its socket still open, the second has the record.
C24_Witness ==
    /\ response.status = 200
    /\ "delivered" \in DOMAIN response
    /\ response.delivered = 1
    /\ Len(streams) = 2
    /\ \E s \in sockets : s.res = 1 /\ s.connectionId \notin Registered
    /\ Len(streams[1]) = 1
    /\ Len(streams[2]) = 2
    /\ streams[2][2].shape = "data"
-----------------------------------------------------------------------------

\* C25: the subscriber set of one fan-out is stable: the records of an
\* accepted publish go to exactly the connections that were subscribers of
\* its channel when it began and whose write succeeds; the unregistration of
\* a failing subscriber in the middle of the pass makes it skip no other
\* member, and no other connection is written to.
C25_StableSnapshot ==
    [][\A req \in PublishRequests, failing \in Failing :
          (/\ broadcasts' = broadcasts + 1
           /\ validateLogPublisher(req.token, req.service)
           /\ handleLogsPublish(req, failing))
          => /\ Written =
                    {connections[c].res : c \in Reached(PublishChannel(req), failing)}
             /\ Registered \ DOMAIN connections' =
                    Thrown(PublishChannel(req), failing)]_vars

\* C25 witness: the first of two subscribers of a channel, itself subscribed
\* to a second channel, was unregistered by the pass of a publish and has no
\* record of it; the second subscriber, next in the set, has its record.
C25_Witness ==
    /\ Len(streams) = 2
    /\ streams[1][1].channels = <<ChanA, ChanF>>
    /\ streams[1][1].connectionId \notin Registered
    /\ \E s \in sockets : s.res = 1
    /\ DataRecords(streams[1]) = <<>>
    /\ streams[2][1].connectionId \in Registered
    /\ Len(DataRecords(streams[2])) = 1
    /\ broadcasts = 1
-----------------------------------------------------------------------------

\* the request that names the channels of a repeated-parameter request in
\* one comma-separated parameter
CommaForm(req) == [req EXCEPT !.channels = Join(@, Comma), !.repeated = FALSE]

\* C26: a subscribe request that gives its channels as a repeated query
\* parameter (?channels=a&channels=b) is accepted, with the authorized channel
\* set and the subscription of the comma-separated form (?channels=a,b): the
\* handler does for it what it does for the comma-separated request.
C26_RepeatedAsCommaSeparated ==
    [][\A req \in SubscribeRequests :
          (req.repeated /\ handleLogsSSE(req)) => handleLogsSSE(CommaForm(req))]_vars
-----------------------------------------------------------------------------

\* the body lacks a required field
LacksRequired(req) ==
    Undefined \in {req.service, req.workspace_id, req.logData}

\* C27: a publish whose body lacks a required field (service, workspace_id or
\* logData) is answered 400 bad_request and has no effect: nothing is fanned
\* out and no counter changes.
C27_MissingFieldRejected ==
    [][\A failing \in Failing :
          (/\ LacksRequired(scenario)
           /\ handleLogsPublish(scenario, failing))
          => /\ response'.status = 400
             /\ UNCHANGED <<connections, logChannels, streams, stats>>]_vars
-----------------------------------------------------------------------------

\* the connection id of each accepted connection, live or closed, as its
\* handshake gives it
AcceptedIds == [r \in DOMAIN streams |-> streams[r][1].connectionId]

\* C28: a connection id is never reused: no two accepted connections, live or
\* already closed, carry the same connection id, so every accepted
\* connection that has not been unregistered has its own entry.
C28_IdNeverReused ==
    \A r1, r2 \in DOMAIN streams : r1 /= r2 => AcceptedIds[r1] /= AcceptedIds[r2]
-----------------------------------------------------------------------------

-----------------------------------------------------------------------------

\* the step accepts a subscribe request: a new response gets its handshake
SubscribeAccepted == Len(streams') = Len(streams) + 1

\* the step accepts a POST /api/logs/publish: it is answered 200 with the
\* body of the publish route
PublishAccepted ==
    /\ broadcasts' = broadcasts + 1
    /\ response'.status = 200
    /\ DOMAIN response' = {"status", "success", "channel", "delivered"}

\* C30: the global counters are exact and monotonic: totalConnections goes up
\* by one with every accepted subscribe and logsPublished by one with every
\* accepted publish, and no other step (a rejected publish, a rejected
\* subscribe, a close, a heartbeat) changes either, so each equals the
\* number accepted so far and never decreases; the number of registered
\* connections never exceeds totalConnections.
C30_CountersExact ==
    [][/\ stats'.totalConnections =
              stats.totalConnections + (IF SubscribeAccepted THEN 1 ELSE 0)
       /\ stats'.logsPublished =
              stats.logsPublished + (IF PublishAccepted THEN 1 ELSE 0)
       /\ stats'.totalConnections = Len(streams')
       /\ Cardinality(DOMAIN connections') <= stats'.totalConnections]_vars

\* C30 witness: after one accepted subscribe and one accepted publish the
\* connection is gone and a publish has just been rejected: the counters
\* still read one and one.
C30_Witness ==
    /\ response.status = 403
    /\ stats = [totalConnections |-> 1, logsPublished |-> 1]
    /\ Registered = {}
    /\ Len(streams) = 1
    /\ Len(DataRecords(streams[1])) = 1
-----------------------------------------------------------------------------

\* the timers a step sets
NewTimeouts == reconnectTimeouts' \ reconnectTimeouts

\* C31: the client reconnects with exponential backoff: the n-th consecutive
\* connection error (n counted from 0 since the last successful open)
\* schedules one reconnect after min(1000 * 2^n, 10000) ms; once 5 attempts
\* have been used without a successful open an error makes the status
\* 'failed' and schedules nothing; a successful open resets the attempt
\* counter to 0.
C31_ExponentialBackoff ==
    [][/\ \A fatal \in BOOLEAN :
             onerror(fatal) =>
                 IF reconnectAttempts < maxReconnectAttempts
                 THEN \E t \in NewTimeouts :
                          /\ NewTimeouts = {t}
                          /\ t.delay = Min(1000 * 2^consecutiveErrors, 10000)
                 ELSE /\ connectionStatus' = "failed"
                      /\ NewTimeouts = {}
       /\ onopen => reconnectAttempts' = 0]_vars

\* the permission patterns of the service a token names, as the claim reads
\* them: a pattern ending in '*' admits the channels that begin with what
\* precedes the '*', any other pattern admits itself
Permitted(req) ==
    /\ validateServiceToken(req.token) /= Null
    /\ \E i \in DOMAIN servicePermissions(validateServiceToken(req.token)) :
           LET pattern == servicePermissions(validateServiceToken(req.token))[i]
           IN  IF pattern[Len(pattern)] = "*"
               THEN /\ Len(req.channel) >= Len(pattern) - 1
                    /\ \A k \in 1..(Len(pattern) - 1) : req.channel[k] = pattern[k]
               ELSE req.channel = pattern

\* C32: a publish through /api/sse/publish is broadcast only under a valid
\* service token and a channel that one of the service's patterns admits;
\* every other publish is answered 403, writes to no subscriber and leaves
\* messagesPublished unchanged
C32_PublishAuthorized ==
    [][\A req \in SsePublishRequests :
          \A failing \in SUBSET {sseConnections[u].res : u \in DOMAIN sseConnections} :
              (handleEventPublish(req, failing) /\ ~Permitted(req)) =>
                  /\ sseResponse'.status = 403
                  /\ sseStreams' = sseStreams
                  /\ sseStats'.messagesPublished = sseStats.messagesPublished]_vars

\* the responses a step's publish failed to write to
WriteFailedOn(res) ==
    \E req \in SsePublishRequests :
        \E failing \in SUBSET {sseConnections[u].res : u \in DOMAIN sseConnections} :
            res \in failing /\ handleEventPublish(req, failing)

\* C35: a connection entry of SSEGateway leaves the registry only when the
\* request that registered it closes or a write to its response throws; the
\* close of an earlier connection of the same user leaves a later, still
\* open connection registered
C35_OpenStaysRegistered ==
    [][\A u \in DOMAIN sseConnections :
          u \notin DOMAIN sseConnections' =>
              \/ [userId |-> u, res |-> sseConnections[u].res] \in sseSockets \ sseSockets'
              \/ WriteFailedOn(sseConnections[u].res)]_vars

\* C36: the channel index of SSEGateway holds user u under channel c exactly
\* when u has a registered connection whose channel list contains c, and no
\* channel key maps to an empty set
C36_IndexExact ==
    /\ \A c \in DOMAIN sseChannels :
          /\ sseChannels[c] /= <<>>
          /\ \A u \in Range(sseChannels[c]) :
                /\ u \in DOMAIN sseConnections
                /\ c \in Range(sseConnections[u].channels)
    /\ \A u \in DOMAIN sseConnections :
          \A c \in Range(sseConnections[u].channels) :
              /\ c \in DOMAIN sseChannels
              /\ u \in Range(sseChannels[c])

\* the entries of a buffer are numbered in the order of arrival: the newest
\* is at the head and each entry is older than the one before it
NewestFirst(buffer) ==
    \A i \in 1..(Len(buffer) - 1) : buffer[i].n > buffer[i + 1].n

\* a group of groupedLogs holds the newest logs of its execID that logs holds
NewestOfExec(e) ==
    LET group == groupedLogs[e]
    IN  \A i \in DOMAIN logs :
            (logs[i].execID = e /\ logs[i].n >= group[Len(group)].n) =>
                logs[i] \in Range(group)

C37_NoReconnectAfterDisconnect ==
    [][/\ disconnect => reconnectTimeouts' = {}
       /\ (connectionStatus = "disconnected" /\ created' > created) =>
              /\ reconnectTimeouts' = reconnectTimeouts
              /\ reconnectAttempts' = reconnectAttempts]_vars

\* C38: the reconnect attempt counter never exceeds maxReconnectAttempts
C38_AttemptsBounded == reconnectAttempts <= maxReconnectAttempts

\* callback k holds a subscription to channel c: subscribe was called with
\* it and the closure that call returned has not been called
Subscribed(k, c) ==
    \E closure \in unsubscribes :
        closure.callback = k /\ c \in Range(closure.channels)

\* C34: SSEProvider hands a message to the callbacks subscribed to the
\* message's channel, to each of them once whether or not another one
\* throws, and to no other callback; the handshake is handed to nobody
C34_RoutedToSubscribers ==
    \A h \in DOMAIN invoked.handled :
        LET event == invoked.handled[h]
        IN  IF event.parses /\ event.message.type /= "connection"
            THEN /\ \A i \in DOMAIN invoked.calls :
                       /\ invoked.calls[i].channel = event.message.channel
                       /\ Subscribed(invoked.calls[i].callback, event.message.channel)
                 /\ \A k \in 1..MaxCallbacks :
                       Subscribed(k, event.message.channel) =>
                           Cardinality({i \in DOMAIN invoked.calls :
                                           invoked.calls[i].callback = k}) = 1
            ELSE invoked.calls = <<>>

\* a message went to two callbacks, the first of which threw, after a
\* callback of another channel had unsubscribed
C34_Witness ==
    /\ Len(invoked.calls) = 2
    /\ invoked.calls[1].threw
    /\ ~invoked.calls[2].threw
    /\ eventSource.channels /= DOMAIN subscribersRef

\* C39: the channel list of the EventSource of SSEProvider is the set of
\* channels that have a subscribed callback, no channel is kept with an empty
\* callback set, and without a subscribed callback there is no EventSource
\* and the status is 'disconnected'
C39_ChannelsFollowSubscribers ==
    /\ eventSource /= NoSource =>
           eventSource.channels = {c \in {SseLogs, SseMetrics} :
                                      \E k \in 1..MaxCallbacks : Subscribed(k, c)}
    /\ \A c \in DOMAIN subscribersRef : subscribersRef[c] /= <<>>
    /\ unsubscribes = {} =>
           /\ eventSource = NoSource
           /\ connectionStatus = "disconnected"
====
